---- MODULE Spec2Model ----
(***************************************************************************)
(* Verification model of the lumos.ai backend core:                        *)
(*   - the online scoring engine   (backend/scoring.py, backend/ml_model.py)*)
(*   - the offline NIBRS aggregation pipeline (backend/precompute_nibrs.py) *)
(*                                                                         *)
(* Real numbers are carried as fixed-point integers.  Scores, rates in     *)
(* [0,1] and model predictions are in units of 1e-4 (Scale); histogram     *)
(* shares written by round(x, 6) are in units of 1e-6 (Million).           *)
(***************************************************************************)
EXTENDS Integers, Sequences, FiniteSets, TLC

VARIABLES
    \* ---- scoring engine ----
    req,        \* arguments of the compute_safety_score call
    env,        \* what is on disk at _MODEL_PATH: "absent", "broken", "ok"
    model,      \* _ModelProxy._model: "unloaded", "fallback", "booster"
    cache,      \* _ML_LRU_CACHE: sequence of [key, value], least recent first
    result,     \* what the last call returned (plus the locals the claims name)
    ncalls,     \* calls made so far
    \* ---- aggregation pipeline ----
    acc,        \* AgencyAccumulator
    pc,         \* position of main / _process_directory
    unit,       \* index into dirs of the unit being processed
    files,      \* which tables the current unit's directory holds
    rows,       \* rows the tables of the batch still hold
    processed,  \* main: processed
    skipped,    \* main: skipped
    lastrow,    \* the row just read, with its table
    unitids,    \* incident and offense ids read from the current directory
    profiles,   \* output of _build_agency_profiles (key -> profile), in order
    state_profiles, \* output of _build_state_profiles
    nibrs,      \* NIBRSStatistics: loaded and hourly_distribution
    \* ---- concurrent callers of the scoring engine ----
    used,       \* the cache keys the calls used so far, oldest first
    thr         \* _ML_CACHE_LOCK and the position and locals of each thread

scoreVars == <<req, env, model, cache, result, ncalls>>
aggVars == <<acc, pc, unit, files, rows, processed, skipped, lastrow, unitids,
             profiles, state_profiles, nibrs>>
thrVars == <<used, thr>>
vars == <<req, env, model, cache, result, ncalls, acc, pc, unit, files, rows,
          processed, skipped, lastrow, unitids, profiles, state_profiles,
          nibrs, used, thr>>

Scale == 10000
Million == 1000000

Min(a, b) == IF a < b THEN a ELSE b
Max(a, b) == IF a > b THEN a ELSE b
Abs(a) == IF a < 0 THEN -a ELSE a
Clip(x, lo, hi) == Max(lo, Min(hi, x))
\* product of two fixed-point numbers in units of 1/Scale
Mul(a, b) == (a * b) \div Scale

(***************************************************************************)
(*                         SCORING ENGINE                                  *)
(***************************************************************************)

\* ---- bounded inputs of compute_safety_score ----
Hours == 0 .. 23
CrimeRates == {0, 4200, 8000, 15000, 100000}       \* per 100k
WeatherSeverities == {0, 10000}                    \* [0,1] in 1e-4
PeopleCounts == {1, 2, 9}
Genders == {"female", "male", "mixed", "x"}
Durations == {60, 600}                             \* minutes
NoAgency == [resolved |-> FALSE, part1_rate |-> 0]
\* a resolved agency profile; part1_rate per 100k
Agencies == {[resolved |-> TRUE, part1_rate |-> 3000]}
AgencyOpts == {NoAgency} \cup Agencies
Envs == {"absent", "broken", "ok"}
\* outputs of the trained booster after np.clip(preds, 0, 1), in 1e-4
Predictions == {0, 3000, 6491, 6500, 6509, 6510, 10000}
MaxCalls == 2

\* _FallbackModel.predict: 0.65 * ones
FallbackPrediction == 6500

\* cachetools.LRUCache(maxsize=10000)
CacheMaxSize == 10000

\* _ModelProxy._ensure_loaded: what _model is after the first predict
EnsureLoaded(m, e) ==
    IF m # "unloaded" THEN m
    ELSE IF e = "ok" THEN "booster" ELSE "fallback"

\* 0.5 + 0.5*cos(2*pi*k/24) for k = 0..23, in 1e-4
TimeRawTab ==
    <<10000, 9830, 9330, 8536, 7500, 6294, 5000, 3706, 2500, 1464, 670, 170,
      0, 170, 670, 1464, 2500, 3706, 5000, 6294, 7500, 8536, 9330, 9830>>

\* time_raw = 0.5 + 0.5 * cos(2*pi*((hour - 3) % 24)/24)
TimeRaw(hour) == TimeRawTab[((hour - 3) % 24) + 1]

\* time_factor as a mutant would write it: rising with time_raw
TimeFactorRising(hour) == 6200 + (TimeRaw(hour) * 48) \div 100

\* time_factor = 1.10 - time_raw * 0.48
TimeFactor(hour) == 11000 - (TimeRaw(hour) * 48) \div 100

\* crime_baseline = max(0.10, min(0.95, 1/(1 + (rate/5000)**1.6))), in 1e-4
CrimeBaseline(rate) ==
    CASE rate = 0      -> 9500
      [] rate = 4200   -> 5693
      [] rate = 8000   -> 3204
      [] rate = 15000  -> 1471
      [] rate = 100000 -> 1000

\* group_factor = 1.0 + min(people_count - 1, 3) * 0.08
GroupFactor(people) == Scale + Min(people - 1, 3) * 800

\* gender_fac = 1 - base_gp * night_mult
GenderFac(gender, hour) ==
    LET is_night == hour >= 18 \/ hour < 6
        base_gp == CASE gender = "female" -> 1000
                     [] gender = "male"   -> 300
                     [] gender = "mixed"  -> 200
                     [] OTHER             -> 200
        gender_penalty == IF is_night THEN (base_gp * 12) \div 10 ELSE base_gp
    IN  Scale - gender_penalty

\* weather_factor = 1.0 - weather_severity * 0.12
WeatherFactor(ws) == Scale - (ws * 12) \div 100

\* duration_factor = 1.0 - min(duration_minutes / 60, 4) * 0.02
DurationFactor(dur) == Scale - Min((dur * 200) \div 60, 800)

\* the product of the six terms, before the clip
RawFormula(r) ==
    Mul(Mul(Mul(Mul(Mul(CrimeBaseline(r.crime_rate), TimeFactor(r.hour)),
                    GroupFactor(r.people_count)),
                GenderFac(r.gender, r.hour)),
            WeatherFactor(r.weather_severity)),
        DurationFactor(r.duration_minutes))

\* formula_score as a mutant would compute it: the final clip dropped
FormulaScoreNoClip(r) == RawFormula(r)

\* formula_score = max(0.05, min(0.95, product))
FormulaScore(r) == Clip(RawFormula(r), 500, 9500)

\* a_part1: min(part1_rate / 8000, 1.0) from the profile, else from the rate
APart1(r) ==
    IF r.agency.resolved
    THEN Min((r.agency.part1_rate * Scale) \div 8000, Scale)
    ELSE Min((r.crime_rate * Scale) \div 8000, Scale)

\* round(x, 2) and round(x, 1) of a value in 1e-4, result in 1e-2 and 1e-1
Round2(x) == (x + 50) \div 100
Round1(x) == (x + 500) \div 1000
\* round(lat, 3) of a coordinate in 1e-4 degrees, result in 1e-3 degrees
Round3(x) == (x + 5) \div 10

\* cache_key of compute_safety_score
CacheKey(r) ==
    <<Round3(r.lat), Round3(r.lng), r.hour, Round2(APart1(r)),
      Round1(r.weather_severity), r.gender, r.people_count, r.is_weekend>>

\* ---- cachetools.LRUCache ----
CacheHas(c, k) == \E i \in 1 .. Len(c) : c[i].key = k
CacheIndex(c, k) == CHOOSE i \in 1 .. Len(c) : c[i].key = k
CacheValue(c, k) == c[CacheIndex(c, k)].value
RemoveAt(c, i) == SubSeq(c, 1, i - 1) \o SubSeq(c, i + 1, Len(c))
\* a cache that evicts in insertion order: a hit does not reorder
CacheTouchNot(c, k) == c
\* __getitem__: the key becomes the most recently used
CacheTouch(c, k) == Append(RemoveAt(c, CacheIndex(c, k)), c[CacheIndex(c, k)])
\* __setitem__ of a new key: evict the least recently used while full
CachePut(c, k, v) ==
    LET room == IF Len(c) >= CacheMaxSize THEN Tail(c) ELSE c
    IN  Append(room, [key |-> k, value |-> v])

\* the branch of the blend: abs(prediction - 0.65) < 0.001 and agency is None
UseFormulaOnly(prediction, agency) ==
    Abs(prediction - 6500) < 10 /\ ~agency.resolved

\* blended, in units of 1e-5
Blended(prediction, formula, agency) ==
    IF UseFormulaOnly(prediction, agency)
    THEN formula * 10
    ELSE prediction * 6 + formula * 4

\* safety_index = int(np.clip(blended * 100, 5, 95)); blended*100 is in 1e-3
SafetyIndex(blended) == Clip(blended, 5000, 95000) \div 1000

NoResult == [done |-> FALSE]

\* no thread is inside compute_safety_score and the lock is free
NoThreads == [lock |-> 0]

\* ---- NIBRSStatistics.__init__ ----
\* a 24-bin array of floats is kept as integer numerators over one
\* denominator; 0/0 is the array of NaN
Ones24 == [num |-> [h \in 1 .. 24 |-> 1], den |-> 24]
NotLoaded ==
    [loaded |-> FALSE, hourly_distribution |-> Ones24, state_profiles |-> <<>>]

\* ---- the 25-feature vector of compute_safety_score, in 1e-4 ----
\* dict.get(key, default)
DictGet(d, k, default) == IF k \in DOMAIN d THEN d[k] ELSE default

\* math.sin(2 * math.pi * h / 24) for h = 0 .. 23, in 1e-4
SinTable ==
    <<0, 2588, 5000, 7071, 8660, 9659, 10000, 9659, 8660, 7071, 5000, 2588,
      0, -2588, -5000, -7071, -8660, -9659, -10000, -9659, -8660, -7071,
      -5000, -2588>>
\* time_sin, time_cos
TimeSin(hour) == SinTable[(hour % 24) + 1]
TimeCos(hour) == SinTable[((hour + 6) % 24) + 1]

\* state_tp when the region has no temporal profile: {}
NoStateTP == [hourly_dist |-> <<>>, dow_dist |-> <<>>, monthly_dist |-> <<>>]

\* sum(dist)
SumDist(d) ==
    LET RECURSIVE S(_)
        S(i) == IF i = 0 THEN 0 ELSE d[i] + S(i - 1)
    IN  S(Len(d))

\* min(dist[i] / avg if avg > 0 else 1.0, cap) / cap, with
\* avg = sum(dist) / n if sum(dist) > 0 else 1
RiskRatio(dist, i, cap) ==
    LET total == SumDist(dist)
        ratio == IF total > 0 THEN (dist[i] * Len(dist) * Scale) \div total
                 ELSE dist[i] * Scale
    IN  Min(ratio, cap * Scale) \div cap

\* a_violent, a_property, a_weapon, a_stranger, a_severity; a profile
\* holds rates per 100k, weapon_rate and stranger_rate in 1e-4 and
\* severity_score in thousandths
AViolent(r) ==
    IF r.agency.resolved
    THEN Min((DictGet(r.agency, "violent_rate", 500) * Scale) \div 2000, Scale)
    ELSE Min((r.crime_rate * 2 * (Scale \div 2000)) \div 10, Scale)
AProperty(r) ==
    IF r.agency.resolved
    THEN Min((DictGet(r.agency, "property_rate", 2000) * Scale) \div 6000,
             Scale)
    ELSE Min((r.crime_rate * 7 * (Scale \div 1000)) \div (10 * 6), Scale)
AWeapon(r) ==
    IF r.agency.resolved THEN Min(DictGet(r.agency, "weapon_rate", 1500), Scale)
    ELSE 1500
AStranger(r) ==
    IF r.agency.resolved THEN Min(DictGet(r.agency, "stranger_rate", 3500), Scale)
    ELSE 3500
ASeverity(r) ==
    IF r.agency.resolved
    THEN Min(DictGet(r.agency, "severity_score", 300) * 10, Scale)
    ELSE 3000

\* state_crime_norm
StateCrimeNorm(r) == Min((r.crime_rate * Scale) \div 5000, Scale)

\* pop_group
PopGroup(population) ==
    CASE population >= 1000000 -> 10000
      [] population >= 500000  -> 8500
      [] population >= 250000  -> 7000
      [] population >= 100000  -> 5500
      [] population >= 50000   -> 4000
      [] population >= 10000   -> 2500
      [] OTHER                 -> 1000

\* hourly_risk, dow_risk, monthly_risk; now_dow and now_month are read
\* from the clock
HourlyRisk(r) ==
    IF Len(r.state_tp.hourly_dist) = 24
    THEN RiskRatio(r.state_tp.hourly_dist, r.hour + 1, 3)
    ELSE Max(0, Min(Scale, 5000 + (3 * TimeSin(r.hour + 18)) \div 10))
DowRisk(r) ==
    IF Len(r.state_tp.dow_dist) = 7
    THEN RiskRatio(r.state_tp.dow_dist, r.now_dow + 1, 2)
    ELSE IF r.now_dow >= 5 THEN 5500 ELSE 4500
MonthlyRisk(r) ==
    IF Len(r.state_tp.monthly_dist) = 12
    THEN RiskRatio(r.state_tp.monthly_dist, r.now_month + 1, 2)
    ELSE 5000

\* gender_factor_val
GenderFactorVal(gender) ==
    CASE gender = "female" -> 7000
      [] gender = "male"   -> 4000
      [] OTHER             -> 5000

\* norm_live_events, norm_live_incidents, norm_people
NormLiveEvents(r) == Min((r.live_events * Scale) \div 30, Scale)
NormLiveIncidents(r) == Min((r.live_incidents * Scale) \div 50, Scale)
NormPeople(r) == Min((r.people_count * Scale) \div 4, Scale)

\* officer_density: read from the profile's "officer_count"
OfficerDensity(r) ==
    IF /\ r.agency.resolved
       /\ DictGet(r.agency, "officer_count", 0) > 0
       /\ DictGet(r.agency, "population", 0) > 0
    THEN Min((r.agency.officer_count * 1000 * Scale) \div r.agency.population,
             Scale)
    ELSE 0

\* spatial_density
SpatialDensity(r) ==
    Min((NormLiveIncidents(r) * 6 + r.poi_density * 4) \div 10, Scale)

\* the array before np.clip, in FEATURE_NAMES order
RawFeatures(r) ==
    <<APart1(r), AViolent(r), AProperty(r), AWeapon(r), AStranger(r),
      ASeverity(r), StateCrimeNorm(r), PopGroup(r.population),
      HourlyRisk(r), DowRisk(r), MonthlyRisk(r),
      TimeSin(r.hour), TimeCos(r.hour), r.is_weekend * Scale,
      NormPeople(r), GenderFactorVal(r.gender), r.weather_severity,
      OfficerDensity(r),
      r.is_college, r.is_urban, r.poi_density,
      NormLiveEvents(r), NormLiveIncidents(r), r.moon_illumination,
      SpatialDensity(r)>>

\* features = np.clip(features, 0.0, 1.0)
FeatureVector(r) ==
    [i \in 1 .. 25 |-> Max(0, Min(Scale, RawFeatures(r)[i]))]

Requests ==
    [crime_rate : CrimeRates, hour : Hours, people_count : PeopleCounts,
     gender : Genders, weather_severity : WeatherSeverities,
     duration_minutes : Durations, agency : AgencyOpts,
     lat : {337490}, lng : {-843880}, is_weekend : {0},
     population : {500000}, state_tp : {NoStateTP},
     now_dow : {2}, now_month : {0},
     is_college : {0}, is_urban : {0}, poi_density : {0},
     live_events : {0}, live_incidents : {0},
     moon_illumination : {5000}]

\* compute_safety_score(...), one whole call.  On a cache miss the proxy
\* loads the model if needed and predicts; the booster's output is opaque.
ComputeSafetyScore ==
    /\ ncalls < MaxCalls
    /\ LET key == CacheKey(req)
           hit == CacheHas(cache, key)
           loaded == IF hit THEN model ELSE EnsureLoaded(model, env)
           outs == IF hit THEN {CacheValue(cache, key)}
                   ELSE IF loaded = "fallback" THEN {FallbackPrediction}
                   ELSE Predictions
       IN  \E prediction \in outs :
             LET formula == FormulaScore(req)
                 blended == Blended(prediction, formula, req.agency)
             IN  /\ model' = loaded
                 /\ cache' = IF hit THEN CacheTouch(cache, key)
                             ELSE CachePut(cache, key, prediction)
                 /\ result' = [done |-> TRUE,
                               safety_index |-> SafetyIndex(blended),
                               formula_score |-> formula,
                               blended |-> blended,
                               prediction |-> prediction,
                               hit |-> hit,
                               features |-> FeatureVector(req)]
    /\ ncalls' = ncalls + 1
    /\ used' = Append(used, CacheKey(req))
    /\ UNCHANGED <<req, env, thr>>
    /\ UNCHANGED aggVars


(***************************************************************************)
(*                      AGGREGATION PIPELINE                               *)
(***************************************************************************)

\* ---- bounds of the batch ----
MaxUnits == 2        \* jurisdiction-year directories found by main
MaxRows == 4         \* rows in all tables of all directories of a batch
MaxRowsBare == 6     \* the same, for a batch of agencies and incident tables
MaxIncidents == 60   \* cap on one agency's total_incidents

\* _build_agency_profiles: "if total_inc < 50: continue"
MinIncidents == 50

AgencyIds == {"a1", "a2", "a3"}
IncidentIds == {"i1", "i2", "i3"}
OffenseIds == {"o1", "o2"}
HourBins == 0 .. 23
DowBins == 0 .. 6
MonthBins == 0 .. 11
OffenseCodes == {"13A", "220", "35A"}

\* _discover_directories: the sorted list of (state, year, directory)
Dir(i) == [state |-> IF i = 1 THEN "IL" ELSE "MO", year |-> 2020 + i]

\* the tables a directory can hold
Tables == {"agencies", "incident", "offense_type", "offense", "weapon",
           "victim", "rel", "relationship"}

\* ---- fixed code-category sets (restricted to the modelled codes) ----
PART_I_OFFENSE_CODES == {"13A", "220"}
VIOLENT_CODES == {"13A"}
PROPERTY_CODES == {"220"}

NoInfo == [present |-> FALSE]

\* AgencyAccumulator.__init__
AccInit ==
    [hourly |-> [a \in AgencyIds |-> [h \in HourBins |-> 0]],
     dow |-> [a \in AgencyIds |-> [d \in DowBins |-> 0]],
     monthly |-> [a \in AgencyIds |-> [m \in MonthBins |-> 0]],
     total_incidents |-> [a \in AgencyIds |-> 0],
     years_seen |-> [a \in AgencyIds |-> {}],
     offense_counts |-> [a \in AgencyIds |-> [c \in OffenseCodes |-> 0]],
     part1_counts |-> [a \in AgencyIds |-> 0],
     violent_counts |-> [a \in AgencyIds |-> 0],
     property_counts |-> [a \in AgencyIds |-> 0],
     severity_weighted |-> [a \in AgencyIds |-> 0],
     total_offenses |-> [a \in AgencyIds |-> 0],
     weapon_offense_count |-> [a \in AgencyIds |-> 0],
     victim_male |-> [a \in AgencyIds |-> 0],
     victim_female |-> [a \in AgencyIds |-> 0],
     victim_age_sum |-> [a \in AgencyIds |-> 0],
     victim_age_count |-> [a \in AgencyIds |-> 0],
     stranger_count |-> [a \in AgencyIds |-> 0],
     total_rels |-> [a \in AgencyIds |-> 0],
     agency_info |-> [a \in AgencyIds |-> NoInfo],
     info_order |-> <<>>,
     incident_agency |-> [i \in IncidentIds |-> ""],
     offense_incident |-> [o \in OffenseIds |-> ""]]

\* the per-agency counters of the accumulator (everything but metadata and
\* the join maps)
Counters(a) ==
    <<a.hourly, a.dow, a.monthly, a.total_incidents, a.years_seen,
      a.offense_counts, a.part1_counts, a.violent_counts, a.property_counts,
      a.severity_weighted, a.total_offenses, a.weapon_offense_count,
      a.victim_male, a.victim_female, a.victim_age_sum, a.victim_age_count,
      a.stranger_count, a.total_rels>>

NoRow == [table |-> "none"]
NoIds == [incidents |-> {}, offenses |-> {}]

\* ---- rows of agencies.csv ----
\* name.lower().strip() of the modelled display names
NameKey(name) ==
    CASE name = "Springfield"   -> "springfield"
      [] name = " SPRINGFIELD " -> "springfield"
      [] name = "Shelbyville"   -> "shelbyville"
      [] OTHER                  -> ""

\* _safe_int(re.sub(r"[^0-9]", "", code), 0) of the modelled group codes
PopGroupNum(code) ==
    CASE code = "6"  -> 6
      [] code = "1E" -> 1
      [] OTHER       -> 0

AgencyRows ==
    { [aid |-> "a1", name |-> "Springfield", population |-> 1000,
       state_abbr |-> "IL", county |-> "Sangamon", group |-> "6",
       male_officer |-> 2, female_officer |-> 1],
      [aid |-> "a1", name |-> "Shelbyville", population |-> 1000,
       state_abbr |-> "IL", county |-> "Shelby", group |-> "1E",
       male_officer |-> 0, female_officer |-> 0],
      [aid |-> "a1", name |-> "Springfield", population |-> 2000,
       state_abbr |-> "IL", county |-> "Sangamon", group |-> "1E",
       male_officer |-> 3, female_officer |-> 1],
      [aid |-> "a2", name |-> " SPRINGFIELD ", population |-> 500,
       state_abbr |-> "MO", county |-> "Greene", group |-> "6",
       male_officer |-> 1, female_officer |-> 0],
      [aid |-> "a3", name |-> "Springfield", population |-> 0,
       state_abbr |-> "", county |-> "", group |-> "",
       male_officer |-> 0, female_officer |-> 0],
      [aid |-> "a3", name |-> "", population |-> 800,
       state_abbr |-> "MO", county |-> "Greene", group |-> "6",
       male_officer |-> 1, female_officer |-> 1],
      [aid |-> "", name |-> "Shelbyville", population |-> 900,
       state_abbr |-> "IL", county |-> "Shelby", group |-> "6",
       male_officer |-> 1, female_officer |-> 0] }

\* the overwrite test as a mutant would write it: ">=" for ">"
KeepsHigherOrEqual(prev, pop) == ~prev.present \/ pop >= prev.population

\* "if not prev or pop > prev.get('population', 0)"
Overwrites(prev, pop) == ~prev.present \/ pop > prev.population

\* the metadata record stored for a row read in a directory of `state`
InfoOf(r, state) ==
    [present |-> TRUE,
     name |-> r.name,
     population |-> r.population,
     county |-> r.county,
     state_abbr |-> IF r.state_abbr # "" THEN r.state_abbr ELSE state,
     population_group |-> PopGroupNum(r.group),
     male_officer |-> r.male_officer,
     female_officer |-> r.female_officer]

\* one row of the agencies file (section 1 of _process_directory)
LoadAgency(a, r, state) ==
    IF r.aid = "" THEN a
    ELSE IF Overwrites(a.agency_info[r.aid], r.population)
    THEN [a EXCEPT !.agency_info[r.aid] = InfoOf(r, state),
                   !.info_order = IF a.agency_info[r.aid].present THEN @
                                  ELSE Append(@, r.aid)]
    ELSE a

\* ---- rows of NIBRS_incident.csv ----
\* _parse_incident_date on the modelled raw strings: <<weekday, month - 1>>,
\* or <<>> for None
ParseIncidentDate(raw) ==
    CASE raw = "2024-01-01"          -> <<0, 0>>
      [] raw = "2010-01-26 00:00:00" -> <<1, 0>>
      [] raw = "09-DEC-18"           -> <<6, 11>>
      [] raw = "15-JAN-18 12:00:00"  -> <<0, 0>>
      [] raw = "07/04/2024"          -> <<3, 6>>
      [] raw = "2010-01-26 00:00:00.000" -> <<1, 0>>
      [] raw = "09-DEC-2018"         -> <<6, 11>>
      [] raw = " 2024-01-01 "        -> <<0, 0>>
      [] OTHER                       -> <<>>

\* A run of n consecutive identical rows of the incident table.  hour is
\* _safe_int(INCIDENT_HOUR, -1): -1 stands for text that is no number.
IncidentRows ==
    { [inc_id |-> "i1", aid |-> "a1", hour |-> 2, date |-> "2024-01-01",
       n |-> 49],
      [inc_id |-> "i3", aid |-> "a1", hour |-> 24, date |-> "", n |-> 50],
      [inc_id |-> "i2", aid |-> "a2", hour |-> 23, date |-> "09-DEC-18",
       n |-> 50],
      [inc_id |-> "i1", aid |-> "a2", hour |-> 7, date |-> "07/04/2024",
       n |-> 1],
      [inc_id |-> "i3", aid |-> "a3", hour |-> -1, date |-> "garbage",
       n |-> 50],
      [inc_id |-> "", aid |-> "a1", hour |-> 2, date |-> "2024-01-01",
       n |-> 1],
      [inc_id |-> "i2", aid |-> "", hour |-> 2, date |-> "2024-01-01",
       n |-> 1] }

\* the incident row as a mutant would count it: a row whose date does not
\* parse counts toward the total only
AddIncidentDateGated(a, r, year) ==
    IF r.inc_id = "" \/ r.aid = "" THEN a
    ELSE
      LET dt == ParseIncidentDate(r.date)
          a1 == [a EXCEPT !.incident_agency[r.inc_id] = r.aid,
                          !.total_incidents[r.aid] = @ + r.n,
                          !.years_seen[r.aid] = @ \cup {year}]
      IN  IF dt = <<>> THEN a1
          ELSE LET a2 == IF 0 <= r.hour /\ r.hour <= 23
                         THEN [a1 EXCEPT !.hourly[r.aid][r.hour] = @ + r.n]
                         ELSE a1
               IN  [a2 EXCEPT !.dow[r.aid][dt[1]] = @ + r.n,
                              !.monthly[r.aid][dt[2]] = @ + r.n]

\* a run of r.n copies of one incident row (section 2 of _process_directory)
AddIncident(a, r, year) ==
    IF r.inc_id = "" \/ r.aid = "" THEN a
    ELSE
      LET dt == ParseIncidentDate(r.date)
          a1 == [a EXCEPT !.incident_agency[r.inc_id] = r.aid,
                          !.total_incidents[r.aid] = @ + r.n,
                          !.years_seen[r.aid] = @ \cup {year}]
          a2 == IF 0 <= r.hour /\ r.hour <= 23
                THEN [a1 EXCEPT !.hourly[r.aid][r.hour] = @ + r.n]
                ELSE a1
      IN  IF dt # <<>>
          THEN [a2 EXCEPT !.dow[r.aid][dt[1]] = @ + r.n,
                          !.monthly[r.aid][dt[2]] = @ + r.n]
          ELSE a2

\* ---- NIBRS_OFFENSE_TYPE.csv: _load_offense_type_lookup ----
\* severity in tenths, from _OFFENSE_SEVERITY_OVERRIDES by offense name
OffenseTypeRows ==
    { [id |-> 1, code |-> "13A", severity |-> 80],   \* Aggravated Assault
      [id |-> 2, code |-> "220", severity |-> 50],   \* Burglary/Breaking & Entering
      [id |-> 3, code |-> "35A", severity |-> 20] }  \* Drug/Narcotic Violations
NoType == [id |-> 0, code |-> "", severity |-> 20]
DefaultSeverity == 20

\* ot_by_id.get(id, {}) and ot_by_code.get(code, {}) of the current directory
OtById(fs, id) ==
    IF "offense_type" \in fs /\ \E t \in OffenseTypeRows : t.id = id
    THEN CHOOSE t \in OffenseTypeRows : t.id = id
    ELSE NoType
OtByCode(fs, code) ==
    IF "offense_type" \in fs /\ \E t \in OffenseTypeRows : t.code = code
    THEN CHOOSE t \in OffenseTypeRows : t.code = code
    ELSE NoType

\* ---- rows of NIBRS_OFFENSE.csv ----
\* type_id 0 stands for an empty OFFENSE_TYPE_ID
OffenseRows ==
    { [off_id |-> "o1", inc_id |-> "i1", code |-> "13A", type_id |-> 0],
      [off_id |-> "o2", inc_id |-> "i2", code |-> "", type_id |-> 2],
      [off_id |-> "", inc_id |-> "i3", code |-> "35A", type_id |-> 0],
      [off_id |-> "o1", inc_id |-> "", code |-> "13A", type_id |-> 1] }

\* one offense row (section 4 of _process_directory)
AddOffense(a, r, fs) ==
    LET aid == IF r.inc_id = "" THEN "" ELSE a.incident_agency[r.inc_id]
        info1 == IF r.type_id # 0 THEN OtById(fs, r.type_id) ELSE NoType
        code1 == IF r.code = "" /\ info1 # NoType THEN info1.code ELSE r.code
        info2 == IF info1 = NoType /\ code1 # "" THEN OtByCode(fs, code1)
                 ELSE info1
        severity == IF info2 # NoType THEN info2.severity ELSE DefaultSeverity
        a1 == IF r.off_id # ""
              THEN [a EXCEPT !.offense_incident[r.off_id] = r.inc_id]
              ELSE a
        a2 == [a1 EXCEPT !.total_offenses[aid] = @ + 1,
                         !.severity_weighted[aid] = @ + severity]
        a3 == IF code1 # ""
              THEN [a2 EXCEPT !.offense_counts[aid][code1] = @ + 1]
              ELSE a2
        a4 == IF code1 \in PART_I_OFFENSE_CODES
              THEN [a3 EXCEPT !.part1_counts[aid] = @ + 1] ELSE a3
        a5 == IF code1 \in VIOLENT_CODES
              THEN [a4 EXCEPT !.violent_counts[aid] = @ + 1] ELSE a4
    IN  IF aid = "" THEN a
        ELSE IF code1 \in PROPERTY_CODES
             THEN [a5 EXCEPT !.property_counts[aid] = @ + 1] ELSE a5

\* ---- rows of NIBRS_WEAPON.csv ----
WeaponRows ==
    { [off_id |-> "o1", inc_id |-> ""],
      [off_id |-> "o2", inc_id |-> "i1"],
      [off_id |-> "", inc_id |-> "i3"],
      [off_id |-> "", inc_id |-> ""] }

\* the agency a weapon row resolves to, "" when it resolves to none
WeaponAgency(a, r) ==
    LET via == IF r.off_id \in OffenseIds THEN a.offense_incident[r.off_id]
               ELSE ""
        inc_id == IF via = "" THEN r.inc_id ELSE via
    IN  IF inc_id = "" THEN "" ELSE a.incident_agency[inc_id]

\* one weapon row (section 5)
AddWeapon(a, r) ==
    LET aid == WeaponAgency(a, r)
    IN  IF aid # "" THEN [a EXCEPT !.weapon_offense_count[aid] = @ + 1]
        ELSE a

\* ---- rows of NIBRS_VICTIM.csv ----
\* age is _safe_int(AGE_NUM, -1)
VictimRows ==
    { [inc_id |-> "i1", sex |-> "M", age |-> 30],
      [inc_id |-> "i2", sex |-> "F", age |-> 120],
      [inc_id |-> "i3", sex |-> "U", age |-> -1],
      [inc_id |-> "", sex |-> "F", age |-> 30] }

\* one victim row (section 6)
AddVictim(a, r) ==
    LET aid == IF r.inc_id = "" THEN "" ELSE a.incident_agency[r.inc_id]
        a1 == IF r.sex = "M" THEN [a EXCEPT !.victim_male[aid] = @ + 1]
              ELSE IF r.sex = "F" THEN [a EXCEPT !.victim_female[aid] = @ + 1]
              ELSE a
    IN  IF aid = "" THEN a
        ELSE IF 0 < r.age /\ r.age < 120
             THEN [a1 EXCEPT !.victim_age_sum[aid] = @ + r.age,
                             !.victim_age_count[aid] = @ + 1]
             ELSE a1

\* ---- rows of NIBRS_VICTIM_OFFENDER_REL.csv ----
\* "stranger" in rel_name or "unknown" in rel_name, by RELATIONSHIP_ID, for
\* the names of NIBRS_RELATIONSHIP.csv: 1 Victim Was Stranger, 2 Victim Was
\* Spouse, 3 Relationship Unknown
IsStranger(fs, rel_id) == "relationship" \in fs /\ rel_id \in {1, 3}

RelRows ==
    { [inc_id |-> "i1", rel_id |-> 1],
      [inc_id |-> "i2", rel_id |-> 2],
      [inc_id |-> "i3", rel_id |-> 3],
      [inc_id |-> "", rel_id |-> 1] }

\* one relationship row (section 7)
AddRel(a, r, fs) ==
    LET aid == IF r.inc_id = "" THEN "" ELSE a.incident_agency[r.inc_id]
        a1 == [a EXCEPT !.total_rels[aid] = @ + 1]
    IN  IF aid = "" THEN a
        ELSE IF IsStranger(fs, r.rel_id)
             THEN [a1 EXCEPT !.stranger_count[aid] = @ + 1]
             ELSE a1

(***************************************************************************)
(*                        PROFILE BUILDER                                  *)
(***************************************************************************)

RECURSIVE SumFn(_, _)
\* sum(f[x] for x in S)
SumFn(f, S) ==
    IF S = {} THEN 0
    ELSE LET x == CHOOSE y \in S : TRUE
         IN  f[x] + SumFn(f, S \ {x})

\* round(num / den) for num >= 0, den > 0, ties to the even neighbour as
\* Python's round does
RoundDiv(num, den) ==
    LET q == num \div den
        r == num % den
    IN  IF 2 * r < den THEN q
        ELSE IF 2 * r > den THEN q + 1
        ELSE IF q % 2 = 0 THEN q ELSE q + 1

RECURSIVE LongDiv(_, _, _, _)
\* n more decimal digits of rem / den: <<quotient, remainder>>
LongDiv(rem, den, n, q) ==
    IF n = 0 THEN <<q, rem>>
    ELSE LongDiv((rem * 10) % den, den, n - 1, q * 10 + (rem * 10) \div den)

\* round(h / total, 6) in units of 1e-6, for 0 <= h <= total, ties to even
Round6(h, total) ==
    IF h = total THEN Million
    ELSE LET d == LongDiv(h, total, 6, 0)
         IN  IF 2 * d[2] < total THEN d[1]
             ELSE IF 2 * d[2] > total THEN d[1] + 1
             ELSE IF d[1] % 2 = 0 THEN d[1] ELSE d[1] + 1

\* the largest bin of a histogram
MaxBin(hist) == CHOOSE m \in {hist[b] : b \in DOMAIN hist} :
                    \A b \in DOMAIN hist : hist[b] <= m

\* a histogram normalized as a mutant would: to its largest bin, not its sum
NormalizeToMax(hist) ==
    LET total == IF MaxBin(hist) = 0 THEN 1 ELSE MaxBin(hist)
    IN  [b \in DOMAIN hist |-> Round6(hist[b], total)]

\* [round(h / (sum(hist) or 1), 6) for h in hist], in units of 1e-6
Normalize(hist) ==
    LET sum == SumFn(hist, DOMAIN hist)
        total == IF sum = 0 THEN 1 ELSE sum
    IN  [b \in DOMAIN hist |-> Round6(hist[b], total)]

\* the emission test as a mutant would write it: off by one
BelowThresholdOffByOne(total_inc) == total_inc < MinIncidents - 1

\* "if total_inc < 50: continue"
BelowThreshold(total_inc) == total_inc < MinIncidents

\* the key of a profile: <<name>>, or <<name, state>> for "name (state)"
PlainKey(name) == <<NameKey(name)>>
SuffixedKey(key, state) == <<key[1], state>>

\* the profile record _build_agency_profiles writes for agency aid
ProfileOf(a, aid) ==
    LET info == a.agency_info[aid]
        total_inc == a.total_incidents[aid]
        pop == info.population
        n_years == Max(Cardinality(a.years_seen[aid]), 1)
        rate(count) == IF pop > 0
                       THEN RoundDiv(count * Million, n_years * pop)
                       ELSE 0
        total_off == Max(a.total_offenses[aid], 1)
        total_rels_count == Max(a.total_rels[aid], 1)
        total_victims == a.victim_male[aid] + a.victim_female[aid]
        officers == info.male_officer + info.female_officer
        coded == SumFn(a.offense_counts[aid], OffenseCodes)
    IN  [agency_id |-> aid,
         name |-> info.name,
         state_abbr |-> info.state_abbr,
         county |-> info.county,
         population |-> pop,
         population_group |-> info.population_group,
         n_years |-> n_years,
         total_incidents |-> total_inc,
         part1_rate |-> rate(a.part1_counts[aid]),          \* tenths
         violent_rate |-> rate(a.violent_counts[aid]),
         property_rate |-> rate(a.property_counts[aid]),
         total_rate |-> rate(total_inc),
         weapon_rate |-> RoundDiv(a.weapon_offense_count[aid] * Scale,
                                  total_off),               \* 1e-4
         stranger_rate |-> RoundDiv(a.stranger_count[aid] * Scale,
                                    total_rels_count),
         victim_female_rate |->
             IF total_victims > 0
             THEN RoundDiv(a.victim_female[aid] * Scale, total_victims)
             ELSE 5000,
         victim_male_rate |->
             IF total_victims > 0
             THEN RoundDiv(a.victim_male[aid] * Scale, total_victims)
             ELSE 5000,
         mean_victim_age |->
             IF a.victim_age_count[aid] > 0
             THEN RoundDiv(a.victim_age_sum[aid] * 10,
                           a.victim_age_count[aid])
             ELSE 0,                                        \* tenths
         officers_per_1000 |->
             IF pop > 0 THEN RoundDiv(officers * 100000, pop)
             ELSE 0,                                        \* hundredths
         severity_score |-> RoundDiv(a.severity_weighted[aid] * 100,
                                     total_off),            \* thousandths
         offense_mix |->
             [c \in {d \in OffenseCodes : a.offense_counts[aid][d] > 0} |->
                 RoundDiv(a.offense_counts[aid][c] * Scale, Max(coded, 1))],
         hourly_dist |-> Normalize(a.hourly[aid]),
         dow_dist |-> Normalize(a.dow[aid]),
         monthly_dist |-> Normalize(a.monthly[aid])]

\* the empty-name test dropped, as a mutant would
NoKeyNever(key) == FALSE

\* "if not key: continue"
NoKey(key) == key[1] = ""

RECURSIVE BuildFrom(_, _, _)
\* the loop of _build_agency_profiles over acc.agency_info from position i,
\* with `profs` the map built so far
BuildFrom(a, i, profs) ==
    IF i > Len(a.info_order) THEN profs
    ELSE
      LET aid == a.info_order[i]
          info == a.agency_info[aid]
          key == PlainKey(info.name)
          key2 == IF key \in DOMAIN profs
                  THEN SuffixedKey(key, info.state_abbr) ELSE key
      IN  IF BelowThreshold(a.total_incidents[aid]) \/ NoKey(key)
          THEN BuildFrom(a, i + 1, profs)
          ELSE BuildFrom(a, i + 1, (key2 :> ProfileOf(a, aid)) @@ profs)

\* _build_agency_profiles(acc): key -> profile
BuildAgencyProfiles(a) == BuildFrom(a, 1, <<>>)

\* the states that have a profile
StatesOf(profs) == {profs[k].state_abbr : k \in DOMAIN profs} \ {""}

\* the keys of the profiles of state st
KeysOf(profs, st) == {k \in DOMAIN profs : profs[k].state_abbr = st}

\* sd[field][b]: sum over the state's profiles of dist[b] * total_incidents
StateWeighted(profs, st, field, bins) ==
    [b \in bins |->
        SumFn([k \in KeysOf(profs, st) |->
                  profs[k][field][b] * profs[k].total_incidents],
              KeysOf(profs, st))]

\* _build_state_profiles(profiles): state -> profile
BuildStateProfiles(profs) ==
    [st \in StatesOf(profs) |->
        LET keys == KeysOf(profs, st)
            inc == [k \in keys |-> profs[k].total_incidents]
            total == SumFn(inc, keys)
            denom == Max(total, 1)
        IN  [hourly_dist |->
                 Normalize(StateWeighted(profs, st, "hourly_dist", HourBins)),
             dow_dist |->
                 Normalize(StateWeighted(profs, st, "dow_dist", DowBins)),
             monthly_dist |->
                 Normalize(StateWeighted(profs, st, "monthly_dist", MonthBins)),
             total_incidents |-> total,
             n_agencies |-> Cardinality(keys),
             weapon_rate |->
                 RoundDiv(SumFn([k \in keys |-> profs[k].weapon_rate * inc[k]],
                                keys), denom),
             stranger_rate |->
                 RoundDiv(SumFn([k \in keys |-> profs[k].stranger_rate * inc[k]],
                                keys), denom)]]

(***************************************************************************)
(*                 main() and _process_directory()                         *)
(***************************************************************************)

\* the table sets a directory is modelled with
FileSets ==
    { Tables,
      Tables \ {"incident"},
      Tables \ {"agencies", "offense_type", "relationship"} }

\* the table streamed at each position, in the order of _process_directory
TableOf(p) ==
    CASE p = "incidents" -> "incident"
      [] p = "offenses"  -> "offense"
      [] p = "weapons"   -> "weapon"
      [] p = "victims"   -> "victim"
      [] p = "rels"      -> "rel"
Order == <<"incidents", "offenses", "weapons", "victims", "rels">>
IndexOf(p) == CHOOSE i \in 1 .. Len(Order) : Order[i] = p

\* the next position after p whose table the directory holds, else "return"
NextPhase(p, fs) ==
    LET later == {i \in IndexOf(p) + 1 .. Len(Order) : TableOf(Order[i]) \in fs}
    IN  IF later = {} THEN "return"
        ELSE Order[CHOOSE i \in later : \A j \in later : i <= j]

\* the caches left as they are, as a mutant would
ClearCachesNot(a) == a

\* only the incident map cleared, as a mutant would
ClearIncidentMapOnly(a) ==
    [a EXCEPT !.incident_agency = [i \in IncidentIds |-> ""]]

\* "Clear per-directory caches"
ClearCaches(a) ==
    [a EXCEPT !.incident_agency = [i \in IncidentIds |-> ""],
              !.offense_incident = [o \in OffenseIds |-> ""]]

AggStart ==
    /\ acc = AccInit
    /\ pc = "main"
    /\ unit = 1
    /\ files = {}
    /\ processed = 0
    /\ skipped = 0
    /\ lastrow = NoRow
    /\ unitids = NoIds
    /\ profiles = <<>>
    /\ state_profiles = <<>>
    /\ nibrs = NotLoaded

\* the directory test as a mutant would write it: every table required
HasEveryTable(fs) ==
    {"agencies", "incident", "offense", "weapon", "victim", "rel"} \subseteq fs

\* main: "incident_file = _find_csv(directory, 'NIBRS_incident.csv')"
HasIncidentFile(fs) == "incident" \in fs

\* main: a directory without NIBRS_incident.csv is counted and skipped
SkipUnit(fs) ==
    /\ pc = "main" /\ unit <= MaxUnits
    /\ ~HasIncidentFile(fs)
    /\ files' = fs
    /\ skipped' = skipped + 1
    /\ unit' = unit + 1
    /\ lastrow' = NoRow
    /\ UNCHANGED <<acc, pc, rows, processed, unitids, profiles,
                   state_profiles>>
    /\ UNCHANGED scoreVars
    /\ UNCHANGED thrVars
    /\ UNCHANGED nibrs

\* main calls _process_directory: it opens the agencies file, or, without
\* one, clears the caches and opens the incident file
EnterUnit(fs) ==
    /\ pc = "main" /\ unit <= MaxUnits
    /\ HasIncidentFile(fs)
    /\ files' = fs
    /\ lastrow' = NoRow
    /\ unitids' = NoIds
    /\ IF "agencies" \in fs
       THEN pc' = "agencies" /\ acc' = acc
       ELSE pc' = "incidents" /\ acc' = ClearCaches(acc)
    /\ UNCHANGED <<unit, rows, processed, skipped, profiles, state_profiles>>
    /\ UNCHANGED scoreVars
    /\ UNCHANGED thrVars
    /\ UNCHANGED nibrs

\* the positions inside _process_directory at which a table is streamed
Streaming == {"agencies", "incidents", "offenses", "weapons", "victims",
              "rels"}

\* a row that _stream_csv cannot turn into a dict (more fields than the
\* header names) raises inside _process_directory; main logs it, counts the
\* directory as skipped and goes on.  What the directory added stays.
FailUnit ==
    /\ pc \in Streaming /\ rows > 0
    /\ rows' = rows - 1
    /\ pc' = "main"
    /\ skipped' = skipped + 1
    /\ unit' = unit + 1
    /\ files' = {}
    /\ lastrow' = NoRow
    /\ unitids' = NoIds
    /\ UNCHANGED <<acc, processed, profiles, state_profiles>>
    /\ UNCHANGED scoreVars
    /\ UNCHANGED thrVars
    /\ UNCHANGED nibrs

AgencyRow(r) ==
    /\ pc = "agencies" /\ rows > 0
    /\ acc' = LoadAgency(acc, r, Dir(unit).state)
    /\ rows' = rows - 1
    /\ lastrow' = [table |-> "agencies", row |-> r]
    /\ UNCHANGED <<pc, unit, files, processed, skipped, unitids, profiles,
                   state_profiles>>
    /\ UNCHANGED scoreVars
    /\ UNCHANGED thrVars
    /\ UNCHANGED nibrs

\* the agencies file is exhausted: clear the caches, open the incident file
EndAgencies ==
    /\ pc = "agencies"
    /\ pc' = "incidents"
    /\ acc' = ClearCaches(acc)
    /\ lastrow' = NoRow
    /\ UNCHANGED <<unit, files, rows, processed, skipped, unitids, profiles,
                   state_profiles>>
    /\ UNCHANGED scoreVars
    /\ UNCHANGED thrVars
    /\ UNCHANGED nibrs

IncidentRow(r) ==
    /\ pc = "incidents" /\ rows > 0
    /\ r.aid # "" => acc.total_incidents[r.aid] + r.n <= MaxIncidents
    /\ acc' = AddIncident(acc, r, Dir(unit).year)
    /\ rows' = rows - 1
    /\ lastrow' = NoRow
    /\ unitids' = IF r.inc_id # "" /\ r.aid # ""
                  THEN [unitids EXCEPT !.incidents = @ \cup {r.inc_id}]
                  ELSE unitids
    /\ UNCHANGED <<pc, unit, files, processed, skipped, profiles,
                   state_profiles>>
    /\ UNCHANGED scoreVars
    /\ UNCHANGED thrVars
    /\ UNCHANGED nibrs

OffenseRow(r) ==
    /\ pc = "offenses" /\ rows > 0
    /\ acc' = AddOffense(acc, r, files)
    /\ rows' = rows - 1
    /\ lastrow' = [table |-> "offense", row |-> r]
    /\ unitids' = IF r.off_id # "" /\ r.inc_id \in unitids.incidents
                  THEN [unitids EXCEPT !.offenses = @ \cup {r.off_id}]
                  ELSE unitids
    /\ UNCHANGED <<pc, unit, files, processed, skipped, profiles,
                   state_profiles>>
    /\ UNCHANGED scoreVars
    /\ UNCHANGED thrVars
    /\ UNCHANGED nibrs

WeaponRow(r) ==
    /\ pc = "weapons" /\ rows > 0
    /\ acc' = AddWeapon(acc, r)
    /\ rows' = rows - 1
    /\ lastrow' = [table |-> "weapon", row |-> r]
    /\ UNCHANGED <<pc, unit, files, processed, skipped, unitids, profiles,
                   state_profiles>>
    /\ UNCHANGED scoreVars
    /\ UNCHANGED thrVars
    /\ UNCHANGED nibrs

VictimRow(r) ==
    /\ pc = "victims" /\ rows > 0
    /\ acc' = AddVictim(acc, r)
    /\ rows' = rows - 1
    /\ lastrow' = [table |-> "victim", row |-> r]
    /\ UNCHANGED <<pc, unit, files, processed, skipped, unitids, profiles,
                   state_profiles>>
    /\ UNCHANGED scoreVars
    /\ UNCHANGED thrVars
    /\ UNCHANGED nibrs

RelRow(r) ==
    /\ pc = "rels" /\ rows > 0
    /\ acc' = AddRel(acc, r, files)
    /\ rows' = rows - 1
    /\ lastrow' = [table |-> "rel", row |-> r]
    /\ UNCHANGED <<pc, unit, files, processed, skipped, unitids, profiles,
                   state_profiles>>
    /\ UNCHANGED scoreVars
    /\ UNCHANGED thrVars
    /\ UNCHANGED nibrs

\* the table being streamed is exhausted: go on to the next one present
EndTable ==
    /\ pc \in {"incidents", "offenses", "weapons", "victims", "rels"}
    /\ pc' = NextPhase(pc, files)
    /\ lastrow' = NoRow
    /\ UNCHANGED <<acc, unit, files, rows, processed, skipped, unitids,
                   profiles, state_profiles>>
    /\ UNCHANGED scoreVars
    /\ UNCHANGED thrVars
    /\ UNCHANGED nibrs

\* _process_directory returns to main: processed += 1, next directory
ReturnToMain ==
    /\ pc = "return"
    /\ pc' = "main"
    /\ processed' = processed + 1
    /\ unit' = unit + 1
    /\ files' = {}
    /\ unitids' = NoIds
    /\ UNCHANGED <<acc, rows, skipped, lastrow, profiles, state_profiles>>
    /\ UNCHANGED scoreVars
    /\ UNCHANGED thrVars
    /\ UNCHANGED nibrs

\* after the loop main builds the agency profiles, then the state profiles
BuildProfiles ==
    /\ pc = "main" /\ unit > MaxUnits
    /\ LET agency_profiles == BuildAgencyProfiles(acc)
       IN  /\ profiles' = agency_profiles
           /\ state_profiles' = BuildStateProfiles(agency_profiles)
    /\ pc' = "done"
    /\ UNCHANGED <<acc, unit, files, rows, processed, skipped, lastrow,
                   unitids>>
    /\ UNCHANGED scoreVars
    /\ UNCHANGED thrVars
    /\ UNCHANGED nibrs

\* the scoring engine at start-up: proxy not loaded, cache empty
ScoreStart ==
    /\ env \in Envs
    /\ model = "unloaded"
    /\ cache = <<>>
    /\ result = NoResult
    /\ ncalls = 0
    /\ used = <<>>
    /\ thr = NoThreads

\* the scoring engine while the batch job runs: no request is made
ScoreIdle ==
    /\ req = CHOOSE r \in Requests : TRUE
    /\ env = "absent"
    /\ model = "unloaded"
    /\ cache = <<>>
    /\ result = NoResult
    /\ ncalls = 0
    /\ used = <<>>
    /\ thr = NoThreads

\* the batch job is not run while requests are served
AggIdle ==
    /\ acc = AccInit
    /\ pc = "idle"
    /\ unit = 1
    /\ files = {}
    /\ rows = 0
    /\ processed = 0
    /\ skipped = 0
    /\ lastrow = NoRow
    /\ unitids = NoIds
    /\ profiles = <<>>
    /\ state_profiles = <<>>
    /\ nibrs = NotLoaded

Init == AggStart /\ rows = MaxRows /\ ScoreIdle
Next ==
    \/ \E fs \in FileSets : SkipUnit(fs)
    \/ \E fs \in FileSets : EnterUnit(fs)
    \/ \E r \in AgencyRows : AgencyRow(r)
    \/ EndAgencies
    \/ \E r \in IncidentRows : IncidentRow(r)
    \/ \E r \in OffenseRows : OffenseRow(r)
    \/ \E r \in WeaponRows : WeaponRow(r)
    \/ \E r \in VictimRows : VictimRow(r)
    \/ \E r \in RelRows : RelRow(r)
    \/ EndTable
    \/ ReturnToMain
    \/ FailUnit
    \/ BuildProfiles
Spec == Init /\ [][Next]_vars

\* a batch whose directories hold at most the agencies and incident tables
FileSetsBare == { {"agencies", "incident"}, {"agencies"} }
InitBare == AggStart /\ rows = MaxRowsBare /\ ScoreIdle
NextBare ==
    \/ \E fs \in FileSetsBare : SkipUnit(fs)
    \/ \E fs \in FileSetsBare : EnterUnit(fs)
    \/ \E r \in AgencyRows : AgencyRow(r)
    \/ EndAgencies
    \/ \E r \in IncidentRows : IncidentRow(r)
    \/ EndTable
    \/ ReturnToMain
    \/ BuildProfiles
SpecBare == InitBare /\ [][NextBare]_vars

InitScore == req \in Requests /\ ScoreStart /\ AggIdle
NextScore == ComputeSafetyScore
SpecScore == InitScore /\ [][NextScore]_vars

\* ---- claims about compute_safety_score ----

\* C1: every call returns an integer safety index in [5,95] and a formula
\* score in [0.05,0.95], for every hour, rate, weather, group size, gender,
\* model prediction, with or without a resolved agency profile.
C1_ScoreRange ==
    result.done =>
        /\ result.safety_index \in 5 .. 95
        /\ result.formula_score >= 500
        /\ result.formula_score <= 9500

\* C1 witness: a call with a resolved profile whose product of terms left
\* [0.05,0.95] and whose blend left [5,95] before the clips
C1_Witness ==
    /\ result.done
    /\ req.agency.resolved
    /\ RawFormula(req) > 9500
    /\ result.blended > 95000
    /\ result.safety_index = 95

\* C2 (as claimed): the formula alone is the final value exactly when the
\* model is the degenerate fallback and no profile resolved; every other call
\* blends 0.6 * prediction + 0.4 * formula.
C2_BlendPolicyClaim ==
    result.done =>
        result.blended =
            IF model = "fallback" /\ ~req.agency.resolved
            THEN result.formula_score * 10
            ELSE result.prediction * 6 + result.formula_score * 4

\* round-half-up of a value in 1e-3 to an integer
RoundNearest(x) == (x + 500) \div 1000

\* C3 (as claimed): the safety index is the blended value times 100, clipped
\* to [5,95], rounded to the nearest integer.
C3_IndexRoundedClaim ==
    result.done =>
        result.safety_index = RoundNearest(Clip(result.blended, 5000, 95000))

\* C4 (as claimed): with the model file absent or unloadable every call
\* returns and its final value is the formula score alone, with or without a
\* resolved agency profile.
C4_ModelUnavailableClaim ==
    (result.done /\ env \in {"absent", "broken"}) =>
        result.blended = result.formula_score * 10

\* ---- claims about the aggregation pipeline ----

\* an agency with a metadata row, a non-empty normalized name and at least
\* MinIncidents incidents
Eligible(aid) ==
    /\ acc.agency_info[aid].present
    /\ NameKey(acc.agency_info[aid].name) # ""
    /\ acc.total_incidents[aid] >= MinIncidents

\* the keys of the emitted profiles of agency aid
KeysFor(aid) == {k \in DOMAIN profiles : profiles[k].agency_id = aid}

\* C5: after any sequence of processed units no emitted profile belongs to an
\* agency that accumulated fewer than 50 incidents over the whole batch: such
\* an agency is absent from the output map.
C5_NoProfileBelowThreshold ==
    pc = "done" =>
        /\ \A k \in DOMAIN profiles :
               acc.total_incidents[profiles[k].agency_id] >= MinIncidents
        /\ \A aid \in AgencyIds :
               acc.total_incidents[aid] < MinIncidents => KeysFor(aid) = {}

\* C5 witness: after two processed units a named agency with 49 incidents is
\* absent while an agency whose incidents came from both units is emitted
C5_Witness ==
    /\ pc = "done"
    /\ processed = 2
    /\ \E aid \in AgencyIds :
           /\ acc.agency_info[aid].present
           /\ NameKey(acc.agency_info[aid].name) # ""
           /\ acc.total_incidents[aid] = MinIncidents - 1
           /\ KeysFor(aid) = {}
    /\ \E k \in DOMAIN profiles : profiles[k].n_years = 2

\* C6 (as claimed): every agency id with at least 50 incidents is the
\* agency_id of exactly one emitted profile, metadata row or not, named or not.
C6_EveryAgencyEmittedClaim ==
    pc = "done" =>
        \A aid \in AgencyIds :
            acc.total_incidents[aid] >= MinIncidents =>
                Cardinality(KeysFor(aid)) = 1

\* the position of aid in the order its metadata was first stored
InfoPos(aid) == CHOOSE i \in 1 .. Len(acc.info_order) : acc.info_order[i] = aid

\* the eligible agencies that share aid's normalized name
SameName(aid) ==
    {b \in AgencyIds :
        /\ Eligible(b)
        /\ NameKey(acc.agency_info[b].name) = NameKey(acc.agency_info[aid].name)}

\* aid is not the first of its name and a later agency of the same name and
\* the same region takes the suffixed key aid was given
Shadowed(aid) ==
    /\ \E b \in SameName(aid) : InfoPos(b) < InfoPos(aid)
    /\ \E b \in SameName(aid) :
           /\ InfoPos(b) > InfoPos(aid)
           /\ acc.agency_info[b].state_abbr = acc.agency_info[aid].state_abbr

\* C6 (amended): no agency id is the agency_id of more than one profile; an
\* agency without a metadata row, with an empty normalized name or with fewer
\* than 50 incidents has none; an agency with a metadata row, a non-empty name
\* and at least 50 incidents has exactly one unless a later agency of the same
\* name and region took its suffixed key, and then it has none.
C6_EligibleAgencyEmitted ==
    pc = "done" =>
        \A aid \in AgencyIds :
            /\ Cardinality(KeysFor(aid)) <= 1
            /\ ~Eligible(aid) => KeysFor(aid) = {}
            /\ (Eligible(aid) /\ ~Shadowed(aid)) => Cardinality(KeysFor(aid)) = 1
            /\ (Eligible(aid) /\ Shadowed(aid)) => KeysFor(aid) = {}

\* C6 witness: of three agencies with 50 incidents or more, one without a
\* metadata row and one with an empty name are absent, one is emitted once
C6_Witness ==
    /\ pc = "done"
    /\ \E aid \in AgencyIds :
           /\ acc.total_incidents[aid] >= MinIncidents
           /\ ~acc.agency_info[aid].present
           /\ KeysFor(aid) = {}
    /\ \E aid \in AgencyIds :
           /\ acc.total_incidents[aid] >= MinIncidents
           /\ acc.agency_info[aid].present
           /\ NameKey(acc.agency_info[aid].name) = ""
           /\ KeysFor(aid) = {}
    /\ \E aid \in AgencyIds :
           Eligible(aid) /\ Cardinality(KeysFor(aid)) = 1

\* a normalized histogram sums to 1 within 1e-3
SumsToOne(dist) ==
    Abs(SumFn(dist, DOMAIN dist) - Million) <= Million \div 1000

AllZero(hist) == \A b \in DOMAIN hist : hist[b] = 0

\* a normalized histogram is right for the counts it was made from
DistOK(dist, allZeroCounts) ==
    /\ SumsToOne(dist) \/ AllZero(dist)
    /\ AllZero(dist) => allZeroCounts

\* C7: in every emitted agency profile and every emitted state profile each of
\* the hourly, day-of-week and monthly histograms sums to 1 within 1e-3 or is
\* all-zero, and is all-zero only when the counts under it were all zero.
C7_HistogramsNormalized ==
    pc = "done" =>
        /\ \A k \in DOMAIN profiles :
               LET aid == profiles[k].agency_id
               IN  /\ DistOK(profiles[k].hourly_dist, AllZero(acc.hourly[aid]))
                   /\ DistOK(profiles[k].dow_dist, AllZero(acc.dow[aid]))
                   /\ DistOK(profiles[k].monthly_dist,
                             AllZero(acc.monthly[aid]))
        /\ \A st \in DOMAIN state_profiles :
               LET aids == {profiles[k].agency_id : k \in KeysOf(profiles, st)}
               IN  /\ DistOK(state_profiles[st].hourly_dist,
                             \A aid \in aids : AllZero(acc.hourly[aid]))
                   /\ DistOK(state_profiles[st].dow_dist,
                             \A aid \in aids : AllZero(acc.dow[aid]))
                   /\ DistOK(state_profiles[st].monthly_dist,
                             \A aid \in aids : AllZero(acc.monthly[aid]))

\* a histogram with a share strictly between 0 and 1
Split(dist) == \E b \in DOMAIN dist : 0 < dist[b] /\ dist[b] < Million

\* C7 witness: agency and state profiles with a histogram split over several
\* bins, and agency and state profiles with an all-zero histogram
C7_Witness ==
    /\ pc = "done"
    /\ \E k \in DOMAIN profiles :
           Split(profiles[k].hourly_dist) /\ Split(profiles[k].dow_dist)
    /\ \E k \in DOMAIN profiles :
           /\ AllZero(profiles[k].hourly_dist)
           /\ AllZero(profiles[k].monthly_dist)
    /\ \E st \in DOMAIN state_profiles :
           Split(state_profiles[st].hourly_dist)
    /\ \E st \in DOMAIN state_profiles :
           AllZero(state_profiles[st].hourly_dist)

\* C8 (as claimed): when several eligible agencies share a normalized name,
\* each has a profile of its own under a distinct key: none is overwritten,
\* for any number of agencies of that name, several of one region included.
C8_DistinctKeysClaim ==
    pc = "done" =>
        \A aid \in AgencyIds :
            (Eligible(aid) /\ Cardinality(SameName(aid)) > 1) =>
                Cardinality(KeysFor(aid)) = 1

\* C8 failing state: three eligible agencies of one name, two of one region,
\* and the profile of one of them gone from the map
C8_Overwritten ==
    /\ pc = "done"
    /\ \E aid \in AgencyIds :
           /\ Eligible(aid)
           /\ Cardinality(SameName(aid)) = 3
           /\ KeysFor(aid) = {}
    /\ Cardinality(DOMAIN profiles) = 2

\* the step reads an agencies row of an agency id that has stored metadata
ReadsAgencyRowOf(aid) ==
    /\ pc = "agencies"
    /\ rows' = rows - 1
    /\ lastrow'.table = "agencies"
    /\ lastrow'.row.aid = aid
    /\ acc.agency_info[aid].present

\* C9: the stored metadata of an agency id is replaced only by a row with a
\* strictly higher population than the stored one: the stored population
\* never decreases, and a row with an equal or lower population leaves every
\* metadata field of every agency unchanged.
C9_MetadataReplacedOnlyByHigher ==
    [][\A aid \in AgencyIds :
         /\ (acc.agency_info[aid].present
               /\ acc'.agency_info[aid] # acc.agency_info[aid])
            => /\ acc'.agency_info[aid].present
               /\ acc'.agency_info[aid].population
                      > acc.agency_info[aid].population
               /\ ReadsAgencyRowOf(aid)
               /\ lastrow'.row.population > acc.agency_info[aid].population
         /\ (ReadsAgencyRowOf(aid)
               /\ lastrow'.row.population <= acc.agency_info[aid].population)
            => acc'.agency_info = acc.agency_info
      ]_vars

\* C9 witness: in the second unit a row with another name and a population
\* equal to or lower than the stored one has just been read and not stored
C9_Witness ==
    /\ unit = 2
    /\ lastrow.table = "agencies"
    /\ lastrow.row.aid # ""
    /\ acc.agency_info[lastrow.row.aid].present
    /\ lastrow.row.population <= acc.agency_info[lastrow.row.aid].population
    /\ lastrow.row.name # acc.agency_info[lastrow.row.aid].name

DetailTables == {"offense", "weapon", "victim", "rel"}

\* row r of detail table t resolves to no agency through the incident table
\* of the current unit (ids: the ids that table and the offense table mapped)
Unresolved(t, r, ids) ==
    IF t = "weapon"
    THEN r.off_id \notin ids.offenses /\ r.inc_id \notin ids.incidents
    ELSE r.inc_id \notin ids.incidents

\* C10: an offense, weapon, victim or relationship row whose foreign key does
\* not resolve to an agency through the current unit's incident table changes
\* no counter of any agency, and the table goes on with its next row.
C10_UnresolvedRowChangesNothing ==
    [][(/\ rows' = rows - 1
        /\ lastrow'.table \in DetailTables
        /\ Unresolved(lastrow'.table, lastrow'.row, unitids))
       => /\ Counters(acc)' = Counters(acc)
          /\ acc'.offense_incident = acc.offense_incident
          /\ pc' = pc
      ]_vars

\* C10 witness: in the second unit, with incidents mapped in it and counters
\* accumulated, a detail row with a non-empty key that resolves to no agency
\* has just been read
C10_Witness ==
    /\ unit = 2
    /\ lastrow.table \in DetailTables
    /\ lastrow.row.inc_id # ""
    /\ Unresolved(lastrow.table, lastrow.row, unitids)
    /\ unitids.incidents # {}
    /\ \E aid \in AgencyIds : Cardinality(acc.years_seen[aid]) = 2

\* ---- claims about main and the tables of a unit ----

\* the tables C11 calls required
RequiredTables == {"agencies", "incident", "offense", "weapon", "victim", "rel"}

ExitStatus(ndirs, nprocessed, nskipped) == IF ndirs = 0 THEN 1 ELSE 0

\* C12 (as claimed): the batch never aborts on a bad unit, and a run in which
\* at least one unit was skipped ends with an exit status different from that
\* of a run in which every unit was processed.
C12_ExitStatusClaim ==
    pc = "done" =>
        /\ processed + skipped = MaxUnits
        /\ skipped > 0 =>
               ExitStatus(MaxUnits, processed, skipped)
                   # ExitStatus(MaxUnits, MaxUnits, 0)

(***************************************************************************)
(*        PROFILE STORE: NIBRSStatistics.get_agency_profile                *)
(***************************************************************************)
\* Names and keys are sequences of one-character strings.  In this part
\* `profiles` is nibrs_stats.agency_profiles as json.load returns it: the
\* entries [key, state_abbr, population] in file order, keys distinct.

MaxStore == 3        \* entries of the loaded agency-profile map

\* str.lower() and str.upper() on the modelled characters
LowerChar(c) == CASE c = "A" -> "a" [] c = "B" -> "b" [] OTHER -> c
Lower(s) == [i \in 1 .. Len(s) |-> LowerChar(s[i])]
UpperState(st) ==
    CASE st = "il" -> "IL" [] st = "mo" -> "MO" [] st = "tx" -> "TX"
      [] OTHER -> st

\* s.split(",")[0]
FirstSegment(s) ==
    LET commas == {i \in 1 .. Len(s) : s[i] = ","}
    IN  IF commas = {} THEN s
        ELSE SubSeq(s, 1, (CHOOSE i \in commas : \A j \in commas : i <= j) - 1)

\* s.strip()
Strip(s) ==
    LET inked == {i \in 1 .. Len(s) : s[i] # " "}
    IN  IF inked = {} THEN <<>>
        ELSE SubSeq(s, CHOOSE i \in inked : \A j \in inked : i <= j,
                       CHOOSE i \in inked : \A j \in inked : i >= j)

\* city_lower = city_name.split(",")[0].strip().lower() if city_name else ""
CityLower(city_name) == Lower(Strip(FirstSegment(city_name)))

\* Python's "a in b" for strings
IsIn(a, b) ==
    \E i \in 1 .. Len(b) - Len(a) + 1 : SubSeq(b, i, i + Len(a) - 1) = a

\* the substring test with one direction forgotten, as a mutant would
MatchesOneWay(city_lower, key) == IsIn(city_lower, key)

\* "city_lower in key or key in city_lower"
Matches(city_lower, key) == IsIn(city_lower, key) \/ IsIn(key, city_lower)

\* the exact tier left out, as a mutant would
HasExactNever(store, city_lower) == FALSE

\* "city_lower in self.agency_profiles"
HasExact(store, city_lower) ==
    \E i \in 1 .. Len(store) : store[i].key = city_lower

\* self.agency_profiles[city_lower]
ExactProfile(store, city_lower) ==
    store[CHOOSE i \in 1 .. Len(store) : store[i].key = city_lower]

RECURSIVE BestSubstring(_, _, _, _, _)
\* the tier-2 loop from entry i on: the index of best_match, 0 for None
BestSubstring(store, city_lower, i, best_match, best_len) ==
    IF i > Len(store) THEN best_match
    ELSE IF Matches(city_lower, store[i].key) /\ Len(store[i].key) < best_len
         THEN BestSubstring(store, city_lower, i + 1, i, Len(store[i].key))
         ELSE BestSubstring(store, city_lower, i + 1, best_match, best_len)

\* self._state_index.get(state, []): the indexes of the state's entries, in
\* file order (load() skips an entry with an empty state_abbr)
StateKeys(store, state) ==
    LET idx == {i \in 1 .. Len(store) :
                   store[i].state_abbr # "" /\ store[i].state_abbr = state}
    IN  [n \in 1 .. Cardinality(idx) |->
            CHOOSE i \in idx : Cardinality({j \in idx : j < i}) = n - 1]

RECURSIVE LargestInState(_, _, _, _, _)
\* the tier-3 loop from position n of state_keys on: the index of best, 0
\* for None
LargestInState(store, state_keys, n, best, best_pop) ==
    IF n > Len(state_keys) THEN best
    ELSE IF store[state_keys[n]].population > best_pop
         THEN LargestInState(store, state_keys, n + 1, state_keys[n],
                             store[state_keys[n]].population)
         ELSE LargestInState(store, state_keys, n + 1, best, best_pop)

NoProfile == [key |-> <<>>, state_abbr |-> "", population |-> -1]
None == [found |-> FALSE, tier |-> 4, profile |-> NoProfile]
Found(t, prof) == [found |-> TRUE, tier |-> t, profile |-> prof]

\* get_agency_profile(city_name, state_abbr) on the loaded map `store`
GetAgencyProfileOf(store, city_name, state_abbr) ==
    LET city_lower == CityLower(city_name)
        best_match == BestSubstring(store, city_lower, 1, 0, 999999)
        state_keys == StateKeys(store, UpperState(state_abbr))
        best == LargestInState(store, state_keys, 1, 0, 0)
    IN  IF Len(store) = 0 THEN None
        ELSE IF city_lower = <<>> THEN None
        ELSE IF HasExact(store, city_lower)
             THEN Found(1, ExactProfile(store, city_lower))
        ELSE IF best_match # 0 THEN Found(2, store[best_match])
        ELSE IF state_abbr # "" /\ Len(state_keys) > 0 /\ best # 0
             THEN Found(3, store[best])
        ELSE None

\* ---- bounded inputs ----
ProfileKeys == { <<"a">>, <<"a", "b">>, <<"b", "c">>, <<"a", "b", "c">> }
StoreStates == {"IL", "MO"}
Populations == {0, 5, 9}
Entries == [key : ProfileKeys, state_abbr : StoreStates,
            population : Populations]
Stores ==
    {s \in UNION {[1 .. n -> Entries] : n \in 0 .. MaxStore} :
        \A i, j \in 1 .. Len(s) : i # j => s[i].key # s[j].key}
CityNames ==
    { <<>>, <<" ">>, <<",", "a", "b">>, <<"a", "b">>,
      <<" ", "A", "b", " ", ",", "c">>, <<"b">>, <<"a", "b", "c">>,
      <<"c", "c">>, <<"b", "b">> }
QueryStates == {"", "il", "MO", "TX"}
Queries == [city_name : CityNames, state_abbr : QueryStates]

\* one call of nibrs_stats.get_agency_profile
GetAgencyProfile ==
    /\ pc = "resolver" /\ ~result.done
    /\ result' = [done |-> TRUE,
                  out |-> GetAgencyProfileOf(profiles, req.city_name,
                                             req.state_abbr)]
    /\ UNCHANGED <<req, env, model, cache, ncalls>>
    /\ UNCHANGED <<acc, pc, unit, files, rows, processed, skipped, lastrow,
                   unitids, profiles, state_profiles, nibrs>>
    /\ UNCHANGED thrVars

InitResolve ==
    /\ req \in Queries
    /\ profiles \in Stores
    /\ env = "absent" /\ model = "unloaded" /\ cache = <<>>
    /\ result = NoResult /\ ncalls = 0
    /\ acc = AccInit /\ pc = "resolver" /\ unit = 1 /\ files = {}
    /\ rows = 0 /\ processed = 0 /\ skipped = 0 /\ lastrow = NoRow
    /\ unitids = NoIds /\ state_profiles = <<>>
    /\ used = <<>> /\ thr = NoThreads
    /\ nibrs = [NotLoaded EXCEPT !.loaded = TRUE]
NextResolve == GetAgencyProfile
SpecResolve == InitResolve /\ [][NextResolve]_vars

\* ---- claims about get_agency_profile ----

\* the keys of the loaded map
StoreKeys == {profiles[i].key : i \in 1 .. Len(profiles)}
StoreEntries == {profiles[i] : i \in 1 .. Len(profiles)}

\* the keys that contain the normalized name or are contained in it
SubstringKeys ==
    {k \in StoreKeys :
        \/ IsIn(CityLower(req.city_name), k)
        \/ IsIn(k, CityLower(req.city_name))}

\* C13: whenever the lower-cased, trimmed first comma segment of the name
\* equals a key of the map, the profile stored under exactly that key is
\* returned, whatever the region code, also when a shorter key is a substring
\* of the name.
C13_ExactMatchWins ==
    (result.done /\ CityLower(req.city_name) \in StoreKeys) =>
        /\ result.out.found
        /\ result.out.profile \in StoreEntries
        /\ result.out.profile.key = CityLower(req.city_name)

\* C13 witness: a name that needs splitting, trimming and lower-casing equals
\* a key, a shorter key listed before it is a substring of the name, and the
\* region code names a region with other profiles
C13_Witness ==
    /\ result.done
    /\ req.city_name # CityLower(req.city_name)
    /\ CityLower(req.city_name) \in StoreKeys
    /\ \E i \in 1 .. Len(profiles) :
           /\ Len(profiles[i].key) < Len(CityLower(req.city_name))
           /\ IsIn(profiles[i].key, CityLower(req.city_name))
           /\ \E j \in 1 .. Len(profiles) :
                  i < j /\ profiles[j].key = CityLower(req.city_name)
    /\ req.state_abbr # ""
    /\ result.out.profile.state_abbr # UpperState(req.state_abbr)
    /\ result.out.profile.key = CityLower(req.city_name)

\* C14: when no key matches exactly and some key contains the normalized
\* name or is contained in it, the result is a profile with such a key, no
\* other such key is strictly shorter, and the region fallback is not used.
C14_ShortestSubstringWins ==
    (/\ result.done
     /\ CityLower(req.city_name) # <<>>
     /\ ~(CityLower(req.city_name) \in StoreKeys)
     /\ SubstringKeys # {}) =>
        /\ result.out.found
        /\ result.out.tier = 2
        /\ result.out.profile \in StoreEntries
        /\ result.out.profile.key \in SubstringKeys
        /\ \A k \in SubstringKeys : Len(k) >= Len(result.out.profile.key)

\* C14 witness: no exact match, keys matching in both directions, a longer
\* matching key listed first, a region code whose region has a larger
\* profile, and the shortest matching key returned
C14_Witness ==
    /\ result.done
    /\ ~(CityLower(req.city_name) \in StoreKeys)
    /\ \E k \in SubstringKeys :
           IsIn(k, CityLower(req.city_name))
           /\ Len(k) < Len(CityLower(req.city_name))
    /\ \E k \in SubstringKeys :
           IsIn(CityLower(req.city_name), k)
           /\ Len(k) > Len(CityLower(req.city_name))
    /\ Len(profiles[1].key) > Len(result.out.profile.key)
    /\ profiles[1].key \in SubstringKeys
    /\ \E e \in StoreEntries :
           /\ e.state_abbr = UpperState(req.state_abbr)
           /\ e.population > result.out.profile.population
    /\ result.out.tier = 2

\* the profiles of the region the query names
RegionEntries ==
    {e \in StoreEntries : e.state_abbr = UpperState(req.state_abbr)}

\* the name matches no key exactly or by substring (a blank name matches none)
NoNameMatch ==
    \/ CityLower(req.city_name) = <<>>
    \/ SubstringKeys = {}

\* C15 (as claimed): a query whose name matches no key but whose region has
\* at least one profile returns the profile of highest population among the
\* region's, for every population assignment (all 0 included) and for a
\* blank name; none is returned only without a region code or profile.
C15_RegionFallbackClaim ==
    (result.done /\ NoNameMatch) =>
        IF req.state_abbr # "" /\ RegionEntries # {}
        THEN /\ result.out.found
             /\ result.out.profile \in RegionEntries
             /\ \A e \in RegionEntries :
                    e.population <= result.out.profile.population
        ELSE ~result.out.found

\* C15 failing state: a non-blank name that matches no key, a region whose
\* profiles all have population 0, and nothing returned
C15_AllZeroRegion ==
    /\ result.done
    /\ CityLower(req.city_name) # <<>>
    /\ SubstringKeys = {}
    /\ RegionEntries # {}
    /\ \A e \in RegionEntries : e.population = 0
    /\ ~result.out.found

(***************************************************************************)
(*                 THE PREDICTION CACHE WHEN IT IS FULL                    *)
(***************************************************************************)

\* an earlier call, at the i-th of CacheMaxSize other locations
PriorRequest(i) ==
    [crime_rate |-> 0, hour |-> 0, people_count |-> 1, gender |-> "male",
     weather_severity |-> 0, duration_minutes |-> 30, agency |-> NoAgency,
     lat |-> 10 * i, lng |-> -843880, is_weekend |-> 0,
     population |-> 500000, state_tp |-> NoStateTP,
     now_dow |-> 2, now_month |-> 0,
     is_college |-> 0, is_urban |-> 0, poi_density |-> 0,
     live_events |-> 0, live_incidents |-> 0,
     moon_illumination |-> 5000]

\* _ML_LRU_CACHE after the earlier calls for locations 1 .. n, made in this
\* order while the model artifact was absent
PriorCache(n) ==
    [i \in 1 .. n |-> [key |-> CacheKey(PriorRequest(i)),
                       value |-> FallbackPrediction]]

\* the calls made now: the two oldest cached locations and a new one, at
\* the cached hour and at another hour
CacheRequests ==
    { [PriorRequest(1) EXCEPT !.lat = l, !.hour = h] :
        l \in {10, 20, 337490}, h \in {0, 1} }

\* the caller passes the arguments of its next call
NextCall ==
    /\ ncalls < MaxCalls
    /\ req' \in CacheRequests \ {req}
    /\ UNCHANGED <<env, model, cache, result, ncalls>>
    /\ UNCHANGED aggVars
    /\ UNCHANGED thrVars

InitCache ==
    /\ req \in CacheRequests
    /\ env \in {"absent", "ok"}
    /\ model = "unloaded"
    /\ cache \in {PriorCache(CacheMaxSize - 1), PriorCache(CacheMaxSize)}
    /\ result = NoResult
    /\ ncalls = 0
    /\ used = <<>>
    /\ thr = NoThreads
    /\ AggIdle
NextCache ==
    \/ NextCall
    \/ ComputeSafetyScore
SpecCache == InitCache /\ [][NextCache]_vars

\* the stored (key, prediction) pairs
CacheEntries(c) == {c[i] : i \in 1 .. Len(c)}

\* when a key was last used: the position of its last use among the calls
\* made now, after every earlier call; else its place among the earlier calls
LastUse(k) ==
    IF \E i \in 1 .. Len(used) : used[i] = k
    THEN CacheMaxSize
         + (CHOOSE i \in 1 .. Len(used) :
              used[i] = k /\ \A j \in i + 1 .. Len(used) : used[j] # k)
    ELSE k[1]

\* C16: the cache never holds more than 10,000 entries, and a call that
\* inserts a new key into a full cache removes exactly one entry, the one
\* whose key was used least recently, and adds exactly the new pair.
C16_CacheBoundedEvictsLRU ==
    [][ /\ Len(cache') <= CacheMaxSize
        /\ (ncalls' = ncalls + 1 /\ ~result'.hit /\ Len(cache) = CacheMaxSize)
           => LET pair == [key |-> CacheKey(req),
                           value |-> result'.prediction]
              IN  /\ Len(cache') = CacheMaxSize
                  /\ Cardinality(CacheEntries(cache')) = CacheMaxSize
                  /\ ~CacheHas(cache, pair.key)
                  /\ cache'[CacheMaxSize] = pair
                  /\ \E g \in 1 .. Len(cache) :
                        /\ RemoveAt(cache, g)
                             = SubSeq(cache', 1, CacheMaxSize - 1)
                        /\ LET least == LastUse(cache[g].key)
                           IN  \A j \in 1 .. Len(cache) :
                                 least <= LastUse(cache[j].key) ]_vars

\* a hit on the oldest entry of a full cache, then a new key: the second
\* oldest entry was evicted and the oldest is still cached
C16_Witness ==
    /\ ncalls = 2
    /\ Len(cache) = CacheMaxSize
    /\ used[1] = CacheKey(PriorRequest(1))
    /\ ~result.hit
    /\ CacheHas(cache, CacheKey(PriorRequest(1)))
    /\ ~CacheHas(cache, CacheKey(PriorRequest(2)))

(***************************************************************************)
(*          CONCURRENT CALLS OF compute_safety_score (scoring.py 946-989)  *)
(***************************************************************************)

MaxThreads == 2
Threads == 1 .. MaxThreads

\* the arguments the threads pass: one location at two hours
ThreadRequests ==
    { [PriorRequest(1) EXCEPT !.lat = 337490, !.hour = h, !.crime_rate = 4200] :
        h \in {0, 1} }
ThreadKeys == {CacheKey(r) : r \in ThreadRequests}

\* threading.Lock: acquire succeeds only while no thread holds the lock
LockFreeAlways(l) == TRUE
LockFree(l) == l = 0

\* the statements of "with _ML_CACHE_LOCK:" after the acquire
InLock == {"check", "get", "predict", "insert", "release"}

ThreadsStart ==
    [lock |-> 0,
     pc |-> [t \in Threads |-> "idle"],
     req |-> [t \in Threads |-> CHOOSE r \in ThreadRequests : TRUE],
     hit |-> [t \in Threads |-> FALSE],
     prediction |-> [t \in Threads |-> 0],
     invoked |-> [k \in ThreadKeys |-> 0]]

\* a thread enters compute_safety_score and computes cache_key (947-951)
Enter(t, r) ==
    /\ thr.pc[t] = "idle"
    /\ ncalls < MaxCalls
    /\ ncalls' = ncalls + 1
    /\ thr' = [thr EXCEPT !.pc[t] = "acquire", !.req[t] = r]
    /\ UNCHANGED <<req, env, model, cache, result, used>>
    /\ UNCHANGED aggVars

\* with _ML_CACHE_LOCK: (954)
Acquire(t) ==
    /\ thr.pc[t] = "acquire"
    /\ LockFree(thr.lock)
    /\ thr' = [thr EXCEPT !.lock = t, !.pc[t] = "check"]
    /\ UNCHANGED <<req, env, model, cache, result, ncalls, used>>
    /\ UNCHANGED aggVars

\* if cache_key in _ML_LRU_CACHE: (955)
Check(t) ==
    /\ thr.pc[t] = "check"
    /\ LET hit == CacheHas(cache, CacheKey(thr.req[t]))
       IN  thr' = [thr EXCEPT !.hit[t] = hit,
                              !.pc[t] = IF hit THEN "get" ELSE "predict"]
    /\ UNCHANGED <<req, env, model, cache, result, ncalls, used>>
    /\ UNCHANGED aggVars

\* prediction = _ML_LRU_CACHE[cache_key] (956)
Get(t) ==
    /\ thr.pc[t] = "get"
    /\ CacheHas(cache, CacheKey(thr.req[t]))
    /\ thr' = [thr EXCEPT
                 !.prediction[t] = CacheValue(cache, CacheKey(thr.req[t])),
                 !.pc[t] = "release"]
    /\ cache' = CacheTouch(cache, CacheKey(thr.req[t]))
    /\ used' = Append(used, CacheKey(thr.req[t]))
    /\ UNCHANGED <<req, env, model, result, ncalls>>
    /\ UNCHANGED aggVars

\* prediction = float(tf_model.predict(features)[0][0]) (958)
Predict(t) ==
    /\ thr.pc[t] = "predict"
    /\ LET loaded == EnsureLoaded(model, env)
           outs == IF loaded = "fallback" THEN {FallbackPrediction}
                   ELSE Predictions
           key == CacheKey(thr.req[t])
       IN  /\ model' = loaded
           /\ \E p \in outs :
                thr' = [thr EXCEPT !.prediction[t] = p,
                                   !.invoked[key] = @ + 1,
                                   !.pc[t] = "insert"]
    /\ UNCHANGED <<req, env, cache, result, ncalls, used>>
    /\ UNCHANGED aggVars

\* _ML_LRU_CACHE[cache_key] = prediction (959)
Insert(t) ==
    /\ thr.pc[t] = "insert"
    /\ cache' = CachePut(cache, CacheKey(thr.req[t]), thr.prediction[t])
    /\ used' = Append(used, CacheKey(thr.req[t]))
    /\ thr' = [thr EXCEPT !.pc[t] = "release"]
    /\ UNCHANGED <<req, env, model, result, ncalls>>
    /\ UNCHANGED aggVars

\* the end of the with block releases the lock
Release(t) ==
    /\ thr.pc[t] = "release"
    /\ thr' = [thr EXCEPT !.lock = 0, !.pc[t] = "blend"]
    /\ UNCHANGED <<req, env, model, cache, result, ncalls, used>>
    /\ UNCHANGED aggVars

\* the formula, the blend and the returned index (961-997)
Blend(t) ==
    /\ thr.pc[t] = "blend"
    /\ LET r == thr.req[t]
           formula == FormulaScore(r)
           blended == Blended(thr.prediction[t], formula, r.agency)
       IN  result' = [done |-> TRUE,
                      safety_index |-> SafetyIndex(blended),
                      formula_score |-> formula,
                      blended |-> blended,
                      prediction |-> thr.prediction[t],
                      hit |-> thr.hit[t]]
    /\ thr' = [thr EXCEPT !.pc[t] = "idle"]
    /\ UNCHANGED <<req, env, model, cache, ncalls, used>>
    /\ UNCHANGED aggVars

InitThreads ==
    /\ req = CHOOSE r \in ThreadRequests : TRUE
    /\ env \in Envs
    /\ model = "unloaded"
    /\ cache = <<>>
    /\ result = NoResult
    /\ ncalls = 0
    /\ used = <<>>
    /\ thr = ThreadsStart
    /\ AggIdle
NextThreads ==
    \/ \E t \in Threads, r \in ThreadRequests : Enter(t, r)
    \/ \E t \in Threads : Acquire(t)
    \/ \E t \in Threads : Check(t)
    \/ \E t \in Threads : Get(t)
    \/ \E t \in Threads : Predict(t)
    \/ \E t \in Threads : Insert(t)
    \/ \E t \in Threads : Release(t)
    \/ \E t \in Threads : Blend(t)
SpecThreads == InitThreads /\ [][NextThreads]_vars

\* C17: the membership check, the model call on a miss and the insert run
\* under one lock: no two threads are inside the locked block together, no
\* two threads hold an observed miss for the same key, the model is invoked
\* at most once for a key that stays cached, and a call that has left the
\* block uses the prediction stored for its key.
C17_LookupAtomicPerKey ==
    /\ \A t, u \in Threads :
         (t # u /\ thr.pc[t] \in InLock) => thr.pc[u] \notin InLock
    /\ \A t, u \in Threads :
         (t # u /\ thr.pc[t] \in {"predict", "insert"}
                /\ thr.pc[u] \in {"predict", "insert"})
         => CacheKey(thr.req[t]) # CacheKey(thr.req[u])
    /\ \A k \in ThreadKeys : thr.invoked[k] <= 1
    /\ \A k \in ThreadKeys :
         Cardinality({i \in 1 .. Len(cache) : cache[i].key = k}) <= 1
    /\ \A t \in Threads :
         thr.pc[t] \in {"release", "blend"}
         => /\ CacheHas(cache, CacheKey(thr.req[t]))
            /\ CacheValue(cache, CacheKey(thr.req[t])) = thr.prediction[t]

\* two threads asked for the same key while the model was loaded: one
\* missed and invoked the model, the other waited and then hit
C17_Witness ==
    /\ env = "ok"
    /\ thr.pc[1] = "blend" /\ thr.pc[2] = "blend"
    /\ CacheKey(thr.req[1]) = CacheKey(thr.req[2])
    /\ thr.hit[1] # thr.hit[2]
    /\ thr.invoked[CacheKey(thr.req[1])] = 1

(***************************************************************************)
(*        THE 24-HOUR RISK CURVE (nibrs_data.py 164-265, 341-404)          *)
(***************************************************************************)

MaxCurveStore == 2

\* the value numpy gives 0/0 and everything computed from it
NaN == -1

\* hourly_dist lists as the JSON files hold them, in units of 1e-6
Zero24 == [h \in 1 .. 24 |-> 0]
Noon24 == [h \in 1 .. 24 |-> IF h = 13 THEN Million ELSE 0]
Split24 == [h \in 1 .. 24 |-> IF h \in {1, 24} THEN 500000 ELSE 0]
AgencyHists == {Zero24, Noon24, Split24}
StateHists == AgencyHists \cup {<<>>, <<Million>>}

\* agency_profiles.json: profiles as _build_agency_profiles writes them
CurveAgencies == [hourly_dist : AgencyHists, total_incidents : {50, 60}]
CurveStores == UNION {[1 .. n -> CurveAgencies] : n \in 0 .. MaxCurveStore}
\* state_temporal_profiles.json
CurveStateFiles ==
    {<<>>} \cup {[st \in {"IL"} |-> [hourly_dist |-> d]] : d \in StateHists}
StoreFiles == {"agency_profiles.json", "state_temporal_profiles.json"}
BaseRisks == {-100, 0, 50, 100, 200}
CurveQueries == [state_abbr : {"", "il", "TX"}, base_risk : BaseRisks]

RECURSIVE SumSeq(_)
SumSeq(s) == IF s = <<>> THEN 0 ELSE Head(s) + SumSeq(Tail(s))
MaxSeq(s) == CHOOSE m \in {s[i] : i \in 1 .. Len(s)} :
                \A i \in 1 .. Len(s) : s[i] <= m

\* load: "Compute global statistics from all agencies" (235-255);
\* all_hourly / all_hourly.sum() is 0/0 when every histogram is all-zero
GlobalHourly(profs) ==
    LET all_hourly ==
            [h \in 1 .. 24 |->
               SumSeq([i \in 1 .. Len(profs) |->
                         profs[i].hourly_dist[h] * profs[i].total_incidents])]
        total_weight ==
            SumSeq([i \in 1 .. Len(profs) |-> profs[i].total_incidents])
    IN  IF Len(profs) > 0 /\ total_weight > 0
        THEN [num |-> all_hourly, den |-> SumSeq(all_hourly)]
        ELSE Ones24

\* NIBRSStatistics.load()
LoadStore(present, agency_file, state_file) ==
    IF "agency_profiles.json" \notin present THEN NotLoaded
    ELSE [loaded |-> TRUE,
          hourly_distribution |-> GlobalHourly(agency_file),
          state_profiles |->
              IF "state_temporal_profiles.json" \in present
              THEN state_file ELSE <<>>]

\* a / b in units of 1e-4, for 0 <= a <= b
Ratio(a, b) == RoundDiv(Round6(a, b), 100)

\* 0.5 + 0.5 * cos(2 pi (h - 3) / 24) for h = 0 .. 23, in units of 1e-4
Circadian ==
    <<8536, 9330, 9830, 10000, 9830, 9330, 8536, 7500, 6294, 5000, 3706, 2500,
      1464, 670, 170, 0, 170, 670, 1464, 2500, 3706, 5000, 6294, 7500>>
\* kernel = [0.1, 0.2, 0.4, 0.2, 0.1], in tenths
Kernel == <<1, 2, 4, 2, 1>>
Wrap(i) == ((i - 1) % 24) + 1

\* the steps of get_hourly_risk_curve on a distribution without NaN
\* "Normalize volume to max=1", in units of 1e-4
VolumeNormalized(dist) ==
    LET m == MaxSeq(dist.num)
    IN  [h \in 1 .. 24 |-> IF m > 0 THEN Ratio(dist.num[h], m) ELSE 0]
\* a padding of zeros in place of the wrapped hours
PaddedZeros(normalized) == <<0, 0>> \o normalized \o <<0, 0>>
\* padded = np.concatenate([normalized[-k_half:], normalized,
\*                          normalized[:k_half]])
Padded(normalized) ==
    SubSeq(normalized, 23, 24) \o normalized \o SubSeq(normalized, 1, 2)
\* np.convolve(a, v, mode="same") for len(v) = 5 <= len(a): entry i is the
\* sum of v[k] * a[i + 3 - k], with a taken as 0 outside its bounds
ConvolveSame(a, v) ==
    [i \in 1 .. Len(a) |->
       SumSeq([k \in 1 .. 5 |->
                 IF i + 3 - k \in 1 .. Len(a) THEN v[k] * a[i + 3 - k]
                 ELSE 0])]
\* circular smoothing, in units of 1e-5:
\* np.convolve(padded, kernel, mode="same")[k_half:-k_half]
Convolved(normalized) ==
    SubSeq(ConvolveSame(Padded(normalized), Kernel), 3, 26)
Smoothed(convolved) ==
    LET m == MaxSeq(convolved)
    IN  [h \in 1 .. 24 |-> IF m > 0 THEN Ratio(convolved[h], m) ELSE 0]
\* 0.4 * smoothed + 0.6 * circadian, then normalized to its maximum
RiskShape(smoothed) ==
    LET blend == [h \in 1 .. 24 |-> 4 * smoothed[h] + 6 * Circadian[h]]
        m == MaxSeq(blend)
    IN  [h \in 1 .. 24 |-> IF m > 0 THEN Ratio(blend[h], m) ELSE blend[h]]
\* np.clip(risk_shape * danger * 85 + 5, 5, 95), in units of 1e-6
RiskCurve(shape, base_risk) ==
    [h \in 1 .. 24 |->
       Clip(shape[h] * (100 - base_risk) * 85 + 5 * Million,
            5 * Million, 95 * Million)]

\* _synthetic_fallback: base before the clip, in units of 1e-4
SyntheticBase ==
    <<2732, 2508, 2193, 1820, 1467, 1240, 1239, 1514, 2047, 2761, 3554, 4329,
      5021, 5594, 6051, 6438, 6847, 7391, 8142, 9065, 9979, 10596, 10649,
      10028>>
SyntheticFallback ==
    LET base == [h \in 1 .. 24 |-> Clip(SyntheticBase[h], 1000, 10000)]
        m == MaxSeq(base)
    IN  [h \in 1 .. 24 |-> Ratio(base[h], m) * 7000 + 10 * Million]

\* get_hourly_risk_curve(state_abbr, base_risk).  A comparison with NaN is
\* false and arithmetic and np.clip keep NaN, so a distribution of NaN
\* passes through every step to the result.
HourlyRiskCurveOf(stats, state_abbr, base_risk) ==
    LET st == UpperState(state_abbr)
        known == state_abbr # "" /\ st \in DOMAIN stats.state_profiles
        state_dist ==
            IF known /\ Len(stats.state_profiles[st].hourly_dist) = 24
            THEN [num |-> stats.state_profiles[st].hourly_dist,
                  den |-> Million]
            ELSE None
        dist == IF state_dist = None /\ stats.loaded
                THEN stats.hourly_distribution ELSE state_dist
    IN  IF dist = None THEN SyntheticFallback
        ELSE IF dist.den = 0 THEN [h \in 1 .. 24 |-> NaN]
        ELSE RiskCurve(RiskShape(Smoothed(Convolved(VolumeNormalized(dist)))),
                       base_risk)

\* start-up: nibrs_stats.load() reads the two files if they exist
Load ==
    /\ pc = "load"
    /\ nibrs' = LoadStore(files, profiles, state_profiles)
    /\ pc' = "serve"
    /\ UNCHANGED <<acc, unit, files, rows, processed, skipped, lastrow,
                   unitids, profiles, state_profiles>>
    /\ UNCHANGED scoreVars
    /\ UNCHANGED thrVars

\* one call of nibrs_stats.get_hourly_risk_curve
GetHourlyRiskCurve ==
    /\ pc = "serve" /\ ~result.done
    /\ result' = [done |-> TRUE,
                  curve |-> HourlyRiskCurveOf(nibrs, req.state_abbr,
                                              req.base_risk)]
    /\ UNCHANGED <<req, env, model, cache, ncalls>>
    /\ UNCHANGED aggVars
    /\ UNCHANGED thrVars

InitCurve ==
    /\ req \in CurveQueries
    /\ files \in SUBSET StoreFiles
    /\ profiles \in CurveStores
    /\ state_profiles \in CurveStateFiles
    /\ nibrs = NotLoaded
    /\ pc = "load"
    /\ env = "absent" /\ model = "unloaded" /\ cache = <<>>
    /\ result = NoResult /\ ncalls = 0
    /\ acc = AccInit /\ unit = 1 /\ rows = 0 /\ processed = 0 /\ skipped = 0
    /\ lastrow = NoRow /\ unitids = NoIds
    /\ used = <<>> /\ thr = NoThreads
NextCurve ==
    \/ Load
    \/ GetHourlyRiskCurve
SpecCurve == InitCurve /\ [][NextCurve]_vars

\* C18 (as claimed): every returned curve has exactly 24 values, each
\* within [5, 95], whatever the region code, the base risk and the store.
C18_CurveInRangeClaim ==
    (pc = "serve" /\ result.done)
    => /\ Len(result.curve) = 24
       /\ \A h \in 1 .. 24 :
            result.curve[h] >= 5 * Million /\ result.curve[h] <= 95 * Million

\* the store was loaded from profiles whose hourly histograms are all
\* all-zero and the region of the call has no state profile: the global
\* distribution is 0/0 and the curve holds 24 NaN
C18_NaNCurve ==
    /\ pc = "serve" /\ result.done
    /\ nibrs.loaded
    /\ Len(profiles) > 0
    /\ \A i \in 1 .. Len(profiles) : profiles[i].hourly_dist = Zero24
    /\ req.state_abbr = "TX"
    /\ \A h \in 1 .. 24 : result.curve[h] = NaN

(***************************************************************************)
(*     THE 24 HOURLY INDICES OF ONE CONTEXT (test_alignment.py 88-121)     *)
(***************************************************************************)

HighCrimeRates == CrimeRates \ {0}
NightHours == {22, 23, 0, 1, 2, 3, 4, 5}
DayHours == 8 .. 16

\* get_24h_scores: the context of the 24 calls, hour 0 first
DayContexts == {r \in Requests : r.hour = 0 /\ r.crime_rate \in HighCrimeRates}

\* one iteration of "for h in range(24)": compute_safety_score at hour h;
\* the proxy could not load the artifact, so every prediction is 0.65
ScoreHour ==
    /\ pc = "day"
    /\ Len(result.scores) < 24
    /\ LET r == [req EXCEPT !.hour = Len(result.scores)]
           key == CacheKey(r)
           hit == CacheHas(cache, key)
           loaded == IF hit THEN model ELSE EnsureLoaded(model, env)
           prediction == IF hit THEN CacheValue(cache, key)
                         ELSE FallbackPrediction
           blended == Blended(prediction, FormulaScore(r), r.agency)
       IN  /\ loaded = "fallback"
           /\ model' = loaded
           /\ cache' = IF hit THEN CacheTouch(cache, key)
                       ELSE CachePut(cache, key, prediction)
           /\ used' = Append(used, key)
           /\ result' = [done |-> Len(result.scores) = 23,
                         scores |-> Append(result.scores,
                                           SafetyIndex(blended))]
    /\ ncalls' = ncalls + 1
    /\ UNCHANGED <<req, env, thr>>
    /\ UNCHANGED aggVars

InitDay ==
    /\ req \in DayContexts
    /\ env \in {"absent", "broken"}
    /\ model = "unloaded"
    /\ cache = <<>>
    /\ result = [done |-> FALSE, scores |-> <<>>]
    /\ ncalls = 0
    /\ used = <<>>
    /\ thr = NoThreads
    /\ acc = AccInit /\ pc = "day" /\ unit = 1 /\ files = {} /\ rows = 0
    /\ processed = 0 /\ skipped = 0 /\ lastrow = NoRow /\ unitids = NoIds
    /\ profiles = <<>> /\ state_profiles = <<>> /\ nibrs = NotLoaded
NextDay == ScoreHour
SpecDay == InitDay /\ [][NextDay]_vars

\* the sum of the indices of the hours in S; scores[h + 1] is hour h
SumOver(scores, S) == SumFn([h \in S |-> scores[h + 1]], S)

MappedIncidents(a) == {i \in IncidentIds : a.incident_agency[i] # ""}
MappedOffenses(a) == {o \in OffenseIds : a.offense_incident[o] # ""}
\* the positions at which rows are resolved through the maps or fill them
Resolving == {"incidents", "offenses", "weapons", "victims", "rels"}

RECURSIVE AddIncidents(_, _, _)
AddIncidents(a, rs, year) ==
    IF rs = <<>> THEN a
    ELSE AddIncidents(AddIncident(a, Head(rs), year), Tail(rs), year)
RECURSIVE AddOffenses(_, _, _)
AddOffenses(a, rs, fs) ==
    IF rs = <<>> THEN a
    ELSE AddOffenses(AddOffense(a, Head(rs), fs), Tail(rs), fs)
RECURSIVE AddWeapons(_, _)
AddWeapons(a, rs) ==
    IF rs = <<>> THEN a ELSE AddWeapons(AddWeapon(a, Head(rs)), Tail(rs))
RECURSIVE AddVictims(_, _)
AddVictims(a, rs) ==
    IF rs = <<>> THEN a ELSE AddVictims(AddVictim(a, Head(rs)), Tail(rs))
RECURSIVE AddRels(_, _, _)
AddRels(a, rs, fs) ==
    IF rs = <<>> THEN a
    ELSE AddRels(AddRel(a, Head(rs), fs), Tail(rs), fs)

\* _process_directory(state, year, directory, acc) on a directory that holds
\* an incident table and whose agencies table, if any, has no rows
ProcessDirectory(a, u) ==
    LET a2 == AddIncidents(ClearCaches(a), u.incidents, u.year)
        a4 == IF "offense" \in u.files
              THEN AddOffenses(a2, u.offenses, u.files) ELSE a2
        a5 == IF "weapon" \in u.files THEN AddWeapons(a4, u.weapons) ELSE a4
        a6 == IF "victim" \in u.files THEN AddVictims(a5, u.victims) ELSE a5
    IN  IF "rel" \in u.files THEN AddRels(a6, u.rels, u.files) ELSE a6

\* at most one row of s, as a sequence
AtMostOne(s) == {<<>>} \cup {<<r>> : r \in s}

\* the directories of the comparison: few rows, ids shared between them
OrderUnits(i) ==
    [state : {Dir(i).state}, year : {Dir(i).year},
     files : {Tables, Tables \ {"offense", "offense_type", "relationship"}},
     incidents : AtMostOne({r \in IncidentRows :
                              r.inc_id \in {"i1", "i2"} /\ r.aid # ""}),
     offenses : AtMostOne({r \in OffenseRows : r.off_id # "" /\ r.inc_id # ""}),
     weapons : AtMostOne({r \in WeaponRows : r.off_id # ""}),
     victims : AtMostOne({r \in VictimRows : r.inc_id = "i1"}),
     rels : AtMostOne({r \in RelRows : r.inc_id = "i1"})]

\* main's loop over two directories, run once in each order
ProcessBothOrders ==
    /\ pc = "order" /\ ~result.done
    /\ result' = [done |-> TRUE,
                  ab |-> ProcessDirectory(ProcessDirectory(AccInit, req.a),
                                          req.b),
                  ba |-> ProcessDirectory(ProcessDirectory(AccInit, req.b),
                                          req.a)]
    /\ UNCHANGED <<req, env, model, cache, ncalls>>
    /\ UNCHANGED aggVars
    /\ UNCHANGED thrVars

InitOrder ==
    /\ req \in [a : OrderUnits(1), b : OrderUnits(2)]
    /\ env = "absent" /\ model = "unloaded" /\ cache = <<>>
    /\ result = NoResult /\ ncalls = 0
    /\ acc = AccInit /\ pc = "order" /\ unit = 1 /\ files = {} /\ rows = 0
    /\ processed = 0 /\ skipped = 0 /\ lastrow = NoRow /\ unitids = NoIds
    /\ profiles = <<>> /\ state_profiles = <<>> /\ nibrs = NotLoaded
    /\ used = <<>> /\ thr = NoThreads
NextOrder == ProcessBothOrders
SpecOrder == InitOrder /\ [][NextOrder]_vars

\* C21: two directories processed in either order leave every per-agency
\* counter (hourly, day-of-week, monthly, totals, years seen, offense,
\* Part-I, violent, property, severity, weapon, victim and relationship
\* counts) with the same values.
C21_OrderIndependent ==
    result.done => Counters(result.ab) = Counters(result.ba)

\* both directories hold incident i1, for different agencies, and the second
\* holds an offense row and a weapon row that resolve in it; both counted
C21_Witness ==
    /\ result.done
    /\ Len(req.a.incidents) = 1 /\ Len(req.b.incidents) = 1
    /\ req.a.incidents[1].inc_id = req.b.incidents[1].inc_id
    /\ req.a.incidents[1].aid # req.b.incidents[1].aid
    /\ result.ab.total_offenses[req.b.incidents[1].aid] > 0
    /\ result.ab.weapon_offense_count[req.b.incidents[1].aid] > 0
    /\ result.ab.total_incidents[req.a.incidents[1].aid] > 0

(***************************************************************************)
(*          ONE INCIDENT ROW (precompute_nibrs.py 94-121, 243-264)         *)
(***************************************************************************)

\* INCIDENT_DATE texts in each accepted format, padded, and texts in none
AcceptedDates ==
    {"2024-01-01", "2010-01-26 00:00:00", "2010-01-26 00:00:00.000",
     "09-DEC-18", "15-JAN-18 12:00:00", "09-DEC-2018", "07/04/2024",
     " 2024-01-01 "}
RejectedDates == {"", " ", "garbage", "2024-13-01", "2024-01-01T00:00:00"}
IncidentInputs ==
    [inc_id : {"", "i1"}, aid : {"", "a1", "a2"}, hour : {-1, 0, 7, 23, 24},
     date : AcceptedDates \cup RejectedDates, n : {1}]

\* the next row of the incident table is read
ReadIncident ==
    /\ pc = "incident"
    /\ acc' = AddIncident(acc, req, Dir(unit).year)
    /\ pc' = "counted"
    /\ UNCHANGED <<unit, files, rows, processed, skipped, lastrow, unitids,
                   profiles, state_profiles>>
    /\ UNCHANGED scoreVars
    /\ UNCHANGED thrVars
    /\ UNCHANGED nibrs

InitIncident ==
    /\ req \in IncidentInputs
    /\ acc \in {AccInit,
                AddIncident(AccInit,
                            [inc_id |-> "i2", aid |-> "a1", hour |-> 7,
                             date |-> "09-DEC-18", n |-> 1], Dir(1).year)}
    /\ pc = "incident" /\ unit = 1 /\ files = Tables /\ rows = 0
    /\ processed = 0 /\ skipped = 0 /\ lastrow = NoRow /\ unitids = NoIds
    /\ profiles = <<>> /\ state_profiles = <<>> /\ nibrs = NotLoaded
    /\ env = "absent" /\ model = "unloaded" /\ cache = <<>>
    /\ result = NoResult /\ ncalls = 0
    /\ used = <<>> /\ thr = NoThreads
NextIncident == ReadIncident
SpecIncident == InitIncident /\ [][NextIncident]_vars

\* the sum of the bins of one agency's histogram
BinSum(hist) == SumFn(hist, DOMAIN hist)

\* C22: an incident row with a non-empty incident id and agency id adds one
\* to that agency's total; if its hour is within 0..23 it adds one to that
\* hour's bin whether or not its date parses; its day-of-week and monthly
\* histograms grow together, by one when the date is in an accepted format
\* and not at all otherwise.
C22_IncidentRowCounts ==
    [][ (req.inc_id # "" /\ req.aid # "")
        => /\ acc'.total_incidents[req.aid] = acc.total_incidents[req.aid] + 1
           /\ (0 <= req.hour /\ req.hour <= 23)
              => acc'.hourly[req.aid][req.hour]
                 = acc.hourly[req.aid][req.hour] + 1
           /\ ~(0 <= req.hour /\ req.hour <= 23)
              => acc'.hourly = acc.hourly
           /\ BinSum(acc'.dow[req.aid]) - BinSum(acc.dow[req.aid])
              = BinSum(acc'.monthly[req.aid]) - BinSum(acc.monthly[req.aid])
           /\ BinSum(acc'.dow[req.aid]) - BinSum(acc.dow[req.aid])
              = IF req.date \in AcceptedDates THEN 1 ELSE 0 ]_vars

\* a row with a valid hour and a date in no accepted format was counted in
\* the total and in the hourly histogram only
C22_Witness ==
    /\ pc = "counted"
    /\ req.inc_id # "" /\ req.aid = "a1" /\ req.hour = 23
    /\ req.date = "garbage"
    /\ acc.hourly["a1"][23] = 1
    /\ acc.total_incidents["a1"] = 2
    /\ BinSum(acc.dow["a1"]) = 1

(***************************************************************************)
(* The feature vector handed to the model, against the one it was trained  *)
(* on (train_safety_model.py).                                             *)
(***************************************************************************)

\* an agency profile as _build_agency_profiles emits it, reduced to the
\* keys compute_safety_score and the training script read: rates per 100k,
\* weapon_rate and stranger_rate in 1e-4, severity_score in thousandths,
\* officers_per_1000 in hundredths.  It has no "officer_count" key.
FeatureProfile(severity, officers) ==
    [resolved |-> TRUE, part1_rate |-> 3000, violent_rate |-> 400,
     property_rate |-> 2500, weapon_rate |-> 1500, stranger_rate |-> 3500,
     severity_score |-> severity, officers_per_1000 |-> officers,
     population |-> 500000]
SeverityScores == {0, 3000, 8000}
OfficerRates == {0, 250, 800}
FeatureAgencies ==
    {NoAgency} \cup
    {FeatureProfile(s, o) : s \in SeverityScores, o \in OfficerRates}

\* a state temporal profile with a late-evening and weekend excess
EveningStateTP ==
    [hourly_dist |-> [h \in 1 .. 24 |-> IF h > 18 THEN 3 ELSE 1],
     dow_dist |-> <<1, 1, 1, 1, 1, 2, 2>>,
     monthly_dist |-> [m \in 1 .. 12 |-> 1]]

FeatureRequests ==
    [crime_rate : {4200}, hour : Hours, people_count : {1},
     gender : {"female"}, weather_severity : {0},
     duration_minutes : {60}, agency : FeatureAgencies,
     lat : {337490}, lng : {-843880}, is_weekend : {0},
     population : {5000, 500000}, state_tp : {NoStateTP, EveningStateTP},
     now_dow : {2}, now_month : {0},
     is_college : {0}, is_urban : {Scale}, poi_density : {3000},
     live_events : {3}, live_incidents : {5},
     moon_illumination : {5000}]

InitFeatures == req \in FeatureRequests /\ ScoreStart /\ AggIdle
NextFeatures == ComputeSafetyScore
SpecFeatures == InitFeatures /\ [][NextFeatures]_vars

\* train_safety_model.py: min(severity_score / NORM_SEVERITY, 1.0), in 1e-4
TrainSeverity(agency) == Min(agency.severity_score, Scale)
\* train_safety_model.py: min(officers_per_1000 / NORM_OFFICERS, 1.0)
TrainOfficerDensity(agency) ==
    Min((agency.officers_per_1000 * 100) \div 5, Scale)

\* C23: when an agency profile resolves, the sixth feature passed to the
\* model equals the profile's severity score divided by 10, capped at 1
\* (so severity 3.0 gives 0.3 and severity 8.0 gives 0.8).
C23_SeverityFeatureClaim ==
    (result.done /\ req.agency.resolved)
    => result.features[6] = TrainSeverity(req.agency)

\* the failing case: severity 3.0 reaches the model as 1.0, as 8.0 does
C23_SeveritySaturated ==
    /\ result.done /\ req.agency.resolved
    /\ req.agency.severity_score = 3000
    /\ result.features[6] = Scale
    /\ TrainSeverity(req.agency) = 3000

\* C24: when a pipeline profile resolves and records a non-zero
\* officers-per-1000 value, the officer-density feature passed to the model
\* equals officers per 1000 divided by 5, capped at 1, and is non-zero.
C24_OfficerDensityClaim ==
    (result.done /\ req.agency.resolved /\ req.agency.officers_per_1000 > 0)
    => /\ result.features[18] = TrainOfficerDensity(req.agency)
       /\ result.features[18] > 0

\* the failing case: 2.5 officers per 1000 reach the model as 0
C24_OfficerDensityZero ==
    /\ result.done /\ req.agency.resolved
    /\ req.agency.officers_per_1000 = 250
    /\ result.features[18] = 0
    /\ TrainOfficerDensity(req.agency) = 5000

\* C25: for every hour 0..23 the values at positions 12 and 13 of the
\* feature vector handed to the model equal sin(2*pi*hour/24) and
\* cos(2*pi*hour/24), negative values included, as in the training data.
C25_TimeFeaturesClaim ==
    result.done
    => /\ result.features[12] = TimeSin(req.hour)
       /\ result.features[13] = TimeCos(req.hour)

\* the failing case: at 18:00 the sine is -1 and the model is handed 0
C25_NegativeSineZeroed ==
    /\ result.done /\ req.hour = 18
    /\ TimeSin(req.hour) = -Scale
    /\ result.features[12] = 0

(***************************************************************************)
(* The smoothing step of get_hourly_risk_curve on its own.                 *)
(***************************************************************************)

\* an hourly histogram with a late-evening bulge, and one rising over the day
Evening24 == [h \in 1 .. 24 |-> IF h > 20 THEN 150000 ELSE 20000]
Ramp24 == [h \in 1 .. 24 |-> h * 3000]
SmoothHists == {Zero24, Noon24, Split24, Evening24, Ramp24}
Rotations == 0 .. 23

\* the histogram moved k hours later: hour h holds what hour h - k held
Rotate(hist, k) == [h \in 1 .. 24 |-> hist[Wrap(h - k)]]

\* lines 369-378: normalized, padded, convolved, smoothed
SmoothedOf(hist) ==
    LET normalized == VolumeNormalized([num |-> hist, den |-> Million])
        convolved == Convolved(normalized)
    IN  [normalized |-> normalized, convolved |-> convolved,
         smoothed |-> Smoothed(convolved)]

\* the smoothing step applied to a histogram and to its rotation by k
SmoothHistogram ==
    /\ pc = "smooth" /\ ~result.done
    /\ result' = [done |-> TRUE,
                  plain |-> SmoothedOf(req.hist),
                  rotated |-> SmoothedOf(Rotate(req.hist, req.k))]
    /\ UNCHANGED <<req, env, model, cache, ncalls>>
    /\ UNCHANGED aggVars
    /\ UNCHANGED thrVars

InitSmooth ==
    /\ req \in [hist : SmoothHists, k : Rotations]
    /\ env = "absent" /\ model = "unloaded" /\ cache = <<>>
    /\ result = NoResult /\ ncalls = 0 /\ used = <<>> /\ thr = NoThreads
    /\ acc = AccInit /\ pc = "smooth" /\ unit = 1 /\ files = {} /\ rows = 0
    /\ processed = 0 /\ skipped = 0 /\ lastrow = NoRow /\ unitids = NoIds
    /\ profiles = <<>> /\ state_profiles = <<>> /\ nibrs = NotLoaded
NextSmooth == SmoothHistogram
SpecSmooth == InitSmooth /\ [][NextSmooth]_vars

\* C26: the smoothing is circular: the convolved value of hour h is the
\* kernel-weighted sum of the normalized hours h-2 .. h+2 taken modulo 24,
\* with no zero padding at the ends, so the smoothed output of a histogram
\* rotated by k is the smoothed output rotated by k, for every k in 0..23.
C26_SmoothingCircular ==
    result.done
    => /\ \A h \in 1 .. 24 :
            result.plain.convolved[h] =
                SumSeq([j \in 1 .. 5 |->
                          Kernel[j] * result.plain.normalized[Wrap(h + j - 3)]])
       /\ result.rotated.convolved = Rotate(result.plain.convolved, req.k)
       /\ result.rotated.smoothed = Rotate(result.plain.smoothed, req.k)

\* a single noon peak moved to midnight: its smoothing reaches back into
\* the last two hours of the day before
C26_Witness ==
    /\ result.done /\ req.hist = Noon24 /\ req.k = 12
    /\ result.rotated.smoothed[1] = Scale
    /\ result.rotated.smoothed[24] > 0
    /\ result.rotated.smoothed[23] > 0
    /\ result.plain.smoothed[13] = Scale

(***************************************************************************)
(* Two calls of compute_safety_score in a row with different arguments.    *)
(***************************************************************************)

\* arguments that differ in the hour (part of the cache key) and in inputs
\* that feed the feature vector only: population, resolved profile beyond
\* its part-1 rate, region temporal profile, POI density, live incident
\* count, lunar illumination, urban flag
HistoryRequests ==
    [crime_rate : {4200}, hour : {2, 14}, people_count : {1},
     gender : {"female"}, weather_severity : {0},
     duration_minutes : {60},
     agency : {FeatureProfile(3000, 250), FeatureProfile(8000, 250)},
     lat : {337490}, lng : {-843880}, is_weekend : {0},
     population : {5000, 1000000}, state_tp : {NoStateTP, EveningStateTP},
     now_dow : {2}, now_month : {0},
     is_college : {0}, is_urban : {0, Scale}, poi_density : {3000},
     live_events : {3}, live_incidents : {5, 40},
     moon_illumination : {5000}]

\* the caller comes back with other arguments
NextArguments ==
    /\ ncalls < MaxCalls /\ result.done
    /\ req' \in HistoryRequests \ {req}
    /\ UNCHANGED <<env, model, cache, result, ncalls>>
    /\ UNCHANGED aggVars
    /\ UNCHANGED thrVars

InitHistory == req \in HistoryRequests /\ ScoreStart /\ AggIdle
NextHistory ==
    \/ ComputeSafetyScore
    \/ NextArguments
SpecHistory == InitHistory /\ [][NextHistory]_vars

\* C27: the result of a call depends on its inputs only, whatever calls
\* came before; in particular a call never takes from the cache a model
\* prediction that was computed for a different feature vector.  Here the
\* second call on an engine whose cache was empty, if it is served from the
\* cache, has the feature vector of the first call.
C27_NoSharedPredictionClaim ==
    [][(ncalls = 1 /\ ncalls' = 2 /\ result'.hit)
       => result'.features = result.features]_vars

\* the failing case: a town of 5,000 is scored with the prediction cached
\* for a city of 1,000,000 at the same place and hour
C27_SharedPrediction ==
    /\ ncalls = 2 /\ result.done /\ result.hit
    /\ req.population = 5000
    /\ result.features[8] = 1000
    /\ Len(cache) = 1
    /\ result.prediction = cache[1].value

\* ---- weapon and stranger rates ----

\* C28: for every agency the weapon-involved offense count never exceeds
\* the total offense count and the stranger count never exceeds the total
\* relationship count, so the weapon rate and the stranger rate of every
\* emitted profile lie in [0,1].
C28_RatesWithinUnitClaim ==
    /\ \A aid \in AgencyIds :
         /\ acc.weapon_offense_count[aid] <= acc.total_offenses[aid]
         /\ acc.stranger_count[aid] <= acc.total_rels[aid]
    /\ \A k \in DOMAIN profiles :
         /\ profiles[k].weapon_rate \in 0 .. Scale
         /\ profiles[k].stranger_rate \in 0 .. Scale

\* the failing case: a profile is emitted with a weapon rate of 2.0, from
\* two weapon rows of an agency with no offense row
C28_WeaponRateAboveOne ==
    /\ pc = "done"
    /\ \E k \in DOMAIN profiles :
         /\ profiles[k].weapon_rate = 2 * Scale
         /\ acc.weapon_offense_count[profiles[k].agency_id] = 2
         /\ acc.total_offenses[profiles[k].agency_id] = 0

\* the half of the claim that holds: strangers are counted among the
\* relationships, and the emitted stranger rate lies in [0,1]
C28_StrangerWithinRels ==
    /\ \A aid \in AgencyIds : acc.stranger_count[aid] <= acc.total_rels[aid]
    /\ \A k \in DOMAIN profiles : profiles[k].stranger_rate \in 0 .. Scale

(***************************************************************************)
(* The two lookups by name on one loaded store: get_agency_profile and     *)
(* get_agency_crime_rate.                                                  *)
(***************************************************************************)

RECURSIVE FirstSubstring(_, _, _)
\* "for key, stats in self.agency_stats.items(): if city_lower in key or
\* key in city_lower: return stats", from entry i on: the index of the
\* entry returned, 0 for none
FirstSubstring(store, city_lower, i) ==
    IF i > Len(store) THEN 0
    ELSE IF Matches(city_lower, store[i].key) THEN i
    ELSE FirstSubstring(store, city_lower, i + 1)

\* get_agency_crime_rate(city_name).  load() builds agency_stats[key] from
\* agency_profiles[key], key by key in the same order, so an entry of
\* agency_stats is identified with the profile it was copied from.
GetAgencyCrimeRateOf(store, city_name) ==
    LET city_lower == CityLower(city_name)
        first == FirstSubstring(store, city_lower, 1)
    IN  IF Len(store) = 0 THEN None
        ELSE IF city_lower = <<>> THEN None
        ELSE IF HasExact(store, city_lower)
             THEN Found(1, ExactProfile(store, city_lower))
        ELSE IF first # 0 THEN Found(2, store[first])
        ELSE None

\* one call of nibrs_stats.get_agency_crime_rate, for the city that
\* get_agency_profile was asked about
GetAgencyCrimeRate ==
    /\ pc = "resolver" /\ result.done /\ "rate" \notin DOMAIN result
    /\ result' = [done |-> TRUE, out |-> result.out,
                  rate |-> GetAgencyCrimeRateOf(profiles, req.city_name)]
    /\ UNCHANGED <<req, env, model, cache, ncalls>>
    /\ UNCHANGED aggVars
    /\ UNCHANGED thrVars

LookupQueries == [city_name : CityNames, state_abbr : {"", "il"}]
InitLookup ==
    /\ req \in LookupQueries
    /\ profiles \in Stores
    /\ env = "absent" /\ model = "unloaded" /\ cache = <<>>
    /\ result = NoResult /\ ncalls = 0
    /\ acc = AccInit /\ pc = "resolver" /\ unit = 1 /\ files = {}
    /\ rows = 0 /\ processed = 0 /\ skipped = 0 /\ lastrow = NoRow
    /\ unitids = NoIds /\ state_profiles = <<>>
    /\ used = <<>> /\ thr = NoThreads
    /\ nibrs = [NotLoaded EXCEPT !.loaded = TRUE]
NextLookup ==
    \/ GetAgencyProfile
    \/ GetAgencyCrimeRate
SpecLookup == InitLookup /\ [][NextLookup]_vars

\* C29: whenever get_agency_crime_rate and get_agency_profile both return
\* a result by name (exact or substring tier) for one city, the two
\* results belong to the same agency.
C29_SameAgencyClaim ==
    (/\ result.done /\ "rate" \in DOMAIN result
     /\ result.rate.found
     /\ result.out.found /\ result.out.tier \in {1, 2})
    => result.rate.profile.key = result.out.profile.key

\* the failing case: both lookups answer from the substring tier, the rate
\* from the first matching key and the profile from a shorter, later one
C29_DifferentAgencies ==
    /\ result.done /\ "rate" \in DOMAIN result
    /\ result.rate.found /\ result.rate.tier = 2
    /\ result.out.found /\ result.out.tier = 2
    /\ Len(result.out.profile.key) < Len(result.rate.profile.key)

\* the exact tier agrees: a name that is a key resolves to that key in both
C29_ExactTierAgrees ==
    (/\ result.done /\ "rate" \in DOMAIN result
     /\ result.out.found /\ result.out.tier = 1)
    => /\ result.rate.found /\ result.rate.tier = 1
       /\ result.rate.profile = result.out.profile

\* ---- a directory whose processing raises part-way ----

\* C30: a unit counted as skipped because its processing raised part-way
\* leaves every accumulator counter and all agency metadata exactly as they
\* were before that unit started.  Stated for the first directory of the
\* batch, before which the accumulator is the empty one.
C30_FailedUnitLeavesNoTraceClaim ==
    [][(unit = 1 /\ pc \in Streaming /\ pc' = "main"
        /\ skipped' = skipped + 1)
       => /\ Counters(acc') = Counters(AccInit)
          /\ acc'.agency_info = AccInit.agency_info]_vars

\* the failing case: the first directory is counted as skipped, nothing was
\* processed, and its rows are in the counters and in the profiles built
C30_SkippedUnitCounted ==
    /\ pc = "done" /\ processed = 0 /\ skipped = MaxUnits
    /\ Counters(acc) # Counters(AccInit)
    /\ acc.agency_info # AccInit.agency_info
    /\ profiles # <<>>

====
